---- MODULE Spec2Model ----
(***************************************************************************)
(* A model of ibrt/golang-cloud: the App's dependency leveler (cloudz      *)
(* NewApp), the cross-stack export naming and resolution (cloudz           *)
(* utils_cloud.go), the CloudFormation stack operations (opz) and the      *)
(* local and cloud stages that configure and deploy the plugins.           *)
(***************************************************************************)
EXTENDS Integers, Sequences, FiniteSets, TLC

\* Number of plugin identities a configuration draws from.
NumPlugins == 3

\* The leveling loop of NewApp has no exit on a cycle; the model stops
\* following it after this many waves.
MaxWaves == 4

\* Number of stack operations made in a row on one stack name.
MaxOps == 3

\* Number of Deploy calls made on one cloud stage.
MaxDeploys == 2

\* Number of Create calls made on one local stage.
MaxCreates == 2

\* Number of Bucket plugins of the App whose local stage is built.
MaxBuckets == 2
MaxSecret == 1

\* Plugin identities (Go interface values used as map keys).
Universe == 1..NumPlugins

VARIABLES
    cfgPlugins,     \* AppConfig.Plugins, as a set of plugin identities
    deps,           \* deps[p]: what p.GetDependenciesMap() returns
    pluginsMap,     \* NewApp's local pluginsMap: remaining plugin -> residual set
    sortedPlugins,  \* NewApp's sortedPlugins / appImpl.sortedPlugins
    appPc           \* where NewApp stands: "start", "leveling", "ready"

appVars == <<cfgPlugins, deps, pluginsMap, sortedPlugins, appPc>>

VARIABLES
    tupA,           \* an export tuple: [stack, ref, att]
    tupB,           \* a second export tuple, different from tupA
    names,          \* the export names and output keys generated for tupA, tupB
    registered,     \* the tuples the template of tupA's stack has registered
    tplOutputs,     \* gocf.Template.Outputs of that template: output key -> output
    stackOutputs,   \* awscft.Stack.Outputs of the deployed stack: key -> value
    lookup,         \* the outcome of the last GetRef / GetAtt
    namesPc         \* "start", "encoded", "building", "deployed", "resolved"

nameVars == <<tupA, tupB, names, registered, tplOutputs, stackOutputs, lookup, namesPc>>

VARIABLES
    cfStack,        \* the CloudFormation backend's state of one stack name
    opsLast,        \* the last stack operation: its name, template body, the
                    \* backend's state before it and the backend's answers
    opsCalls,       \* the backend calls the last operation made, in order
    opsResult,      \* what the last operation returned, or that it panicked
    opsCount        \* the number of operations made so far

opsVars == <<cfStack, opsLast, opsCalls, opsResult, opsCount>>

VARIABLES
    stageKind,      \* "local" or "cloud": the stage built on the App
    units,          \* the plugins whose GetCloudTemplate returns a template
    stacks,         \* the backend's stack of each plugin's stack name
    configured,     \* the plugins whose cfg is set (Configure has run)
    cloudMetadata,  \* each plugin's cloudMetadata: the stack it was built from, or nil
    localBuilt,     \* the plugins whose UpdateLocalTemplate has returned
    stagePc,        \* where the stage's constructor or Deploy stands
    upserted,       \* the stack UpsertStack returned, until it is passed on
    events,         \* the calls Deploy or Create has made on the plugins and the backend
    deployCount     \* the number of Deploy calls started

VARIABLES
    running,        \* the services running in the docker-compose project of the App
    createCount     \* the number of Create calls started

\* What Deploy and the constructors leave alone: docker-compose and Create.
composeVars == <<running, createCount>>

stageVars == <<stageKind, units, stacks, configured, cloudMetadata, localBuilt, stagePc,
               upserted, events, deployCount, composeVars>>

\* One plugin object (bucketImpl, hasuraImpl or mailImpl) and the calls made on it.
VARIABLES
    pluginKind,           \* which implementation of Plugin the object is
    cfg,                  \* its cfg field: nil, or the config computed for a Stage
    localMetadata,        \* whether its localMetadata field is set
    pluginCloudMetadata,  \* its cloudMetadata field: nil, or the stack it was built from
    heldBy,               \* the stages whose constructor has configured it
    updateReturned,       \* whether an UpdateCloudMetadata call has returned
    call                  \* the last call made on it and how it ended

pluginVars == <<pluginKind, cfg, localMetadata, pluginCloudMetadata, heldBy,
                updateReturned, call>>

\* The Bucket plugins of one App under NewLocalStage.
VARIABLES
    bucketCfgs,           \* what each bucket's cfgFunc returns for the local stage
    tplServices,          \* localTemplate.Services of the stage
    bucketLocalMetadata,  \* each bucket's localMetadata field, or nil
    visitedBuckets        \* the buckets the constructor's loop has visited, in order

bucketVars == <<bucketCfgs, tplServices, bucketLocalMetadata, visitedBuckets>>

\* The secrets file of one context and the calls of its Secrets.
VARIABLES
    defaultValues,  \* secretsImpl.defaultValues
    secretsFile,    \* the bytes of the file at filePath, or NoFile
    saved,          \* the value save last encrypted and what Encrypt returned
    secretsCall     \* the last call of Load or EditPrompt and what it did

secretsVars == <<defaultValues, secretsFile, saved, secretsCall>>

vars == <<appVars, nameVars, opsVars, stageVars, pluginVars, bucketVars, secretsVars>>

\* What the operations of one part leave alone: the variables of the others.
notAppVars == <<nameVars, opsVars, stageVars, pluginVars, bucketVars, secretsVars>>
notNameVars == <<appVars, opsVars, stageVars, pluginVars, bucketVars, secretsVars>>
notOpsVars == <<appVars, nameVars, stageVars, pluginVars, bucketVars, secretsVars>>
notStageVars == <<appVars, nameVars, opsVars, pluginVars, bucketVars, secretsVars>>
notPluginVars == <<appVars, nameVars, opsVars, stageVars, bucketVars, secretsVars>>
notBucketVars == <<appVars, nameVars, opsVars, stageVars, pluginVars, secretsVars>>
notSecretsVars == <<appVars, nameVars, opsVars, stageVars, pluginVars, bucketVars>>

----------------------------------------------------------------------------
(* Helpers *)

Range(s) == {s[i] : i \in 1..Len(s)}

\* Every sequence that lists the members of S exactly once: the orders in
\* which a Go map range can visit S.
OrdersOf(S) ==
    {s \in [1..Cardinality(S) -> S] : \A i, j \in 1..Cardinality(S) : i # j => s[i] # s[j]}

\* Members of every wave of a wave list.
Placed(waves) == UNION {Range(waves[i]) : i \in 1..Len(waves)}

\* The wave indexes at which p occurs.
WavesOf(waves, p) == {i \in 1..Len(waves) : p \in Range(waves[i])}

----------------------------------------------------------------------------
(* Strings are sequences of one-character strings, so that the case and   *)
(* delimiter conversions of the naming scheme are computed, not assumed.  *)

\* <<lower, upper>> of every letter the model's strings use.
CasePairs ==
    {<<"a", "A">>, <<"b", "B">>, <<"c", "C">>, <<"e", "E">>, <<"f", "F">>,
     <<"n", "N">>, <<"p", "P">>, <<"r", "R">>, <<"s", "S">>, <<"x", "X">>}

IsLow(c) == \E pr \in CasePairs : pr[1] = c
IsCap(c) == \E pr \in CasePairs : pr[2] = c
ToUpperChar(c) == IF IsLow(c) THEN (CHOOSE pr \in CasePairs : pr[1] = c)[2] ELSE c
ToLowerChar(c) == IF IsCap(c) THEN (CHOOSE pr \in CasePairs : pr[2] = c)[1] ELSE c

\* The characters strcase treats as word delimiters.
Delimiters == {"_", " ", "-", "."}

\* strings.ReplaceAll(s, <<from>>, to) for a one-character pattern.
RECURSIVE ReplaceAll(_, _, _)
ReplaceAll(s, from, to) ==
    IF s = <<>> THEN <<>>
    ELSE (IF Head(s) = from THEN to ELSE <<Head(s)>>) \o ReplaceAll(Tail(s), from, to)

\* strings.Join(parts, sep)
RECURSIVE Join(_, _)
Join(parts, sep) ==
    IF parts = <<>> THEN <<>>
    ELSE IF Len(parts) = 1 THEN parts[1]
    ELSE parts[1] \o sep \o Join(Tail(parts), sep)

\* strcase.ToCamel: the first letter and every letter after a delimiter are
\* upper-cased, delimiters are dropped, a capital that follows a capital is
\* lower-cased.
RECURSIVE CamelFrom(_, _, _, _)
CamelFrom(s, i, capNext, prevIsCap) ==
    IF i > Len(s) THEN <<>>
    ELSE LET v == s[i]
             w == IF capNext THEN ToUpperChar(v)
                  ELSE IF i = 1 \/ (prevIsCap /\ IsCap(v)) THEN ToLowerChar(v)
                  ELSE v
         IN  IF IsCap(v) \/ IsLow(v)
             THEN <<w>> \o CamelFrom(s, i + 1, FALSE, IsCap(v))
             ELSE CamelFrom(s, i + 1, v \in Delimiters, FALSE)

ToCamel(s) == CamelFrom(s, 1, TRUE, FALSE)

\* strcase.ToKebab: letters are lower-cased, a delimiter becomes "-", and a
\* "-" is inserted where the case changes from lower to upper (and before the
\* last capital of a run of capitals that a lower-case letter follows).
RECURSIVE KebabFrom(_, _)
KebabFrom(s, i) ==
    IF i > Len(s) THEN <<>>
    ELSE LET v == s[i]
             hasNext == i + 1 <= Len(s)
             capThenLow == hasNext /\ IsCap(v) /\ IsLow(s[i + 1])
             lowThenCap == hasNext /\ IsLow(v) /\ IsCap(s[i + 1])
             prevIsCap == i > 1 /\ IsCap(s[i - 1])
             out == IF capThenLow
                    THEN (IF prevIsCap THEN <<"-">> ELSE <<>>) \o <<ToLowerChar(v)>>
                    ELSE IF lowThenCap THEN <<v, "-">>
                    ELSE IF v \in Delimiters THEN <<"-">>
                    ELSE <<ToLowerChar(v)>>
         IN  out \o KebabFrom(s, i + 1)

ToKebab(s) == KebabFrom(s, 1)

----------------------------------------------------------------------------
(* Export naming and resolution, src/cloudz/utils_cloud.go *)

\* AppConfig.Name and the stage's name, both "resource-name" strings.
AppName == <<"a">>
StageName == <<"c">>

\* The plugins whose stacks the naming is exercised on: one kind, once as a
\* singleton (GetInstanceName() = nil) and once with an instance name.
NamedPlugins ==
    {[name |-> <<"p">>, hasInstance |-> FALSE, instance |-> <<>>],
     [name |-> <<"p">>, hasInstance |-> TRUE, instance |-> <<"x">>]}

\* CloudRef and CloudAtt values the naming is exercised on.
RefCodes == {<<"b">>, <<"x", "-", "b">>, <<"b", "-", "s">>, <<"b", "_", "s">>}
AttCodes ==
    {<<"A", "r", "n">>, <<"R", "e", "f">>, <<"A", "b", ".", "A", "b">>, <<"A", "b", "A", "b">>}

ExportTuples ==
    {[plugin |-> pl, ref |-> r, kind |-> "ref", att |-> <<>>] :
        pl \in NamedPlugins, r \in RefCodes}
    \cup
    {[plugin |-> pl, ref |-> r, kind |-> "att", att |-> a] :
        pl \in NamedPlugins, r \in RefCodes, a \in AttCodes}

\* utils_cloud.go:252-264
CloudGetStackName(p) ==
    Join(<<AppName, StageName, p.name>>
            \o (IF p.hasInstance THEN <<p.instance>> ELSE <<>>), <<"-">>)

\* utils_cloud.go:20-22
AttName(a) == ToKebab(ReplaceAll(a, ".", <<"-">>))

\* utils_cloud.go:25-27
AttRef(a) == a

\* utils_cloud.go:33-35
RefName(r, p) == CloudGetStackName(p) \o <<"-">> \o r

\* utils_cloud.go:38-40
RefRef(r) == ToCamel(r)

\* utils_cloud.go:43-45
ExpRefRef(r) == RefRef(r \o <<"-", "e", "x", "p", "-", "r", "e", "f">>)

\* utils_cloud.go:48-50
ExpRefName(r, p) == RefName(r \o <<"-", "e", "x", "p", "-", "r", "e", "f">>, p)

\* utils_cloud.go:53-55
ExpAttRef(r, a) == RefRef(r \o <<"-", "e", "x", "p">>) \o ReplaceAll(AttRef(a), ".", <<>>)

\* utils_cloud.go:58-60
ExpAttName(r, p, a) == RefName(r \o <<"-", "e", "x", "p">>, p) \o <<"-">> \o AttName(a)

\* The export name and the output key of a tuple.
ExportNameOf(t) ==
    IF t.kind = "ref" THEN ExpRefName(t.ref, t.plugin) ELSE ExpAttName(t.ref, t.plugin, t.att)

OutputKeyOf(t) ==
    IF t.kind = "ref" THEN ExpRefRef(t.ref) ELSE ExpAttRef(t.ref, t.att)

\* The identity of a tuple as the spec states it: (stack name, ref[, attribute]).
TupleId(t) == <<CloudGetStackName(t.plugin), t.ref, t.kind, t.att>>

\* The value an export carries: gocf.Ref(ref.Ref()) or
\* gocf.GetAtt(ref.Ref(), att.Ref()), utils_cloud.go:234 and 244.
OutputValueOf(t) ==
    IF t.kind = "ref"
    THEN [fn |-> "Ref", logicalId |-> RefRef(t.ref), att |-> <<>>]
    ELSE [fn |-> "GetAtt", logicalId |-> RefRef(t.ref), att |-> AttRef(t.att)]

NoValue == [fn |-> "none", logicalId |-> <<>>, att |-> <<>>]

\* A Go map assignment m[k] = v.
MapPut(m, k, v) == [x \in (DOMAIN m) \cup {k} |-> IF x = k THEN v ELSE m[x]]

\* utils_cloud.go:232-249: CloudAddExpRef / CloudAddExpGetAtt on tpl.Outputs.
CloudAddExp(outputs, t) ==
    MapPut(outputs, OutputKeyOf(t), [value |-> OutputValueOf(t), export |-> ExportNameOf(t)])

\* utils_cloud.go:80-103: GetRef / GetAtt on the stack's outputs. A miss
\* panics with an error whose arguments are ref.Ref() for GetRef, and att and
\* ref for GetAtt.
GetExport(outputs, t) ==
    IF OutputKeyOf(t) \in DOMAIN outputs
    THEN [tuple |-> t, ok |-> TRUE, value |-> outputs[OutputKeyOf(t)], errArgs |-> <<>>]
    ELSE [tuple |-> t, ok |-> FALSE, value |-> NoValue,
          errArgs |-> IF t.kind = "ref" THEN <<RefRef(t.ref)>> ELSE <<t.att, t.ref>>]

NoTuple == [plugin |-> [name |-> <<>>, hasInstance |-> FALSE, instance |-> <<>>],
            ref |-> <<>>, kind |-> "none", att |-> <<>>]

NoNames == [nameA |-> <<>>, nameB |-> <<>>, keyA |-> <<>>, keyB |-> <<>>]

NoLookup == [tuple |-> NoTuple, ok |-> FALSE, value |-> NoValue, errArgs |-> <<>>]

IdleNames ==
    /\ tupA = <<>>
    /\ tupB = <<>>
    /\ names = <<>>
    /\ registered = {}
    /\ tplOutputs = <<>>
    /\ stackOutputs = <<>>
    /\ lookup = <<>>
    /\ namesPc = "idle"

IdleOps ==
    /\ cfStack = <<>>
    /\ opsLast = <<>>
    /\ opsCalls = <<>>
    /\ opsResult = <<>>
    /\ opsCount = 0

IdleStage ==
    /\ stageKind = "idle"
    /\ units = {}
    /\ stacks = <<>>
    /\ configured = {}
    /\ cloudMetadata = <<>>
    /\ localBuilt = {}
    /\ stagePc = <<>>
    /\ upserted = <<>>
    /\ events = <<>>
    /\ deployCount = 0
    /\ running = {}
    /\ createCount = 0

IdlePlugin ==
    /\ pluginKind = "idle"
    /\ cfg = <<>>
    /\ localMetadata = FALSE
    /\ pluginCloudMetadata = <<>>
    /\ heldBy = {}
    /\ updateReturned = FALSE
    /\ call = <<>>

IdleBuckets ==
    /\ bucketCfgs = <<>>
    /\ tplServices = <<>>
    /\ bucketLocalMetadata = <<>>
    /\ visitedBuckets = <<>>

IdleSecrets ==
    /\ defaultValues = <<>>
    /\ secretsFile = <<>>
    /\ saved = <<>>
    /\ secretsCall = <<>>

IdleApp ==
    /\ cfgPlugins = {}
    /\ deps = [p \in Universe |-> {}]
    /\ pluginsMap = <<>>
    /\ sortedPlugins = <<>>
    /\ appPc = "idle"

InitNames ==
    /\ IdleBuckets
    /\ IdleSecrets
    /\ IdlePlugin
    /\ IdleStage
    /\ IdleApp
    /\ IdleOps
    /\ tupA \in ExportTuples
    /\ tupB \in {t \in ExportTuples : TupleId(t) # TupleId(tupA)}
    /\ names = NoNames
    /\ registered = {}
    /\ tplOutputs = <<>>
    /\ stackOutputs = <<>>
    /\ lookup = NoLookup
    /\ namesPc = "start"

\* The names and keys of both tuples are generated.
EncodeNames ==
    /\ namesPc = "start"
    /\ names' = [nameA |-> ExportNameOf(tupA), nameB |-> ExportNameOf(tupB),
                 keyA |-> OutputKeyOf(tupA), keyB |-> OutputKeyOf(tupB)]
    /\ namesPc' = "encoded"
    /\ UNCHANGED <<tupA, tupB, registered, tplOutputs, stackOutputs, lookup, notNameVars>>

\* GetCloudTemplate of tupA's plugin registers one more export in its template.
RegisterExport ==
    /\ namesPc \in {"encoded", "building"}
    /\ \E t \in {tupA, tupB} \ registered :
          /\ t.plugin = tupA.plugin
          /\ tplOutputs' = CloudAddExp(tplOutputs, t)
          /\ registered' = registered \cup {t}
    /\ namesPc' = "building"
    /\ UNCHANGED <<tupA, tupB, names, stackOutputs, lookup, notNameVars>>

\* The stack is deployed: its outputs are exactly the template's outputs.
DeployTemplate ==
    /\ namesPc \in {"encoded", "building"}
    /\ stackOutputs' = [k \in DOMAIN tplOutputs |-> tplOutputs[k].value]
    /\ namesPc' = "deployed"
    /\ UNCHANGED <<tupA, tupB, names, registered, tplOutputs, lookup, notNameVars>>

\* A dependent plugin resolves one of the tuples against the deployed stack.
ResolveExport ==
    /\ namesPc = "deployed"
    /\ \E t \in {tupA, tupB} :
          /\ t.plugin = tupA.plugin
          /\ lookup' = GetExport(stackOutputs, t)
    /\ namesPc' = "resolved"
    /\ UNCHANGED <<tupA, tupB, names, registered, tplOutputs, stackOutputs, notNameVars>>

NextNames == EncodeNames \/ RegisterExport \/ DeployTemplate \/ ResolveExport

SpecNames == InitNames /\ [][NextNames]_vars

----------------------------------------------------------------------------
(* Stack operations, src/opz/internal/assets/assets.go:246-343 *)

\* Template bodies handed to the backend.
TemplateBodies == {"t1", "t2"}

\* awscft.Stack as far as the operations read it; DescribeStack's nil.
AbsentStack == [exists |-> FALSE, body |-> "none", status |-> "none"]

PresentStack(body, status) == [exists |-> TRUE, body |-> body, status |-> status]

StackStatuses ==
    {"CREATE_COMPLETE", "ROLLBACK_COMPLETE", "UPDATE_COMPLETE", "UPDATE_ROLLBACK_COMPLETE"}

BackendStacks ==
    {AbsentStack} \cup {PresentStack(b, st) : b \in TemplateBodies, st \in StackStatuses}

\* How the backend answers during one operation: whether the first
\* DescribeStacks, the CreateStack / UpdateStack request, the waiter and the
\* last DescribeStacks end without an API error.
Answers == [describeOk : BOOLEAN, callOk : BOOLEAN, waitOk : BOOLEAN, finalOk : BOOLEAN]

Call(api, out) == [api |-> api, out |-> out]

\* What an operation did: the backend's state after it, whether it returned
\* (ok) or panicked, the stack it returned and the calls it made.
Outcome(cf, ok, stack, calls) == [cf |-> cf, ok |-> ok, stack |-> stack, calls |-> calls]

\* assets.go:283-297: a "does not exist" error is nil, any other error panics.
DescribeStack(cf, apiOk) ==
    IF ~apiOk THEN Outcome(cf, FALSE, AbsentStack, <<Call("DescribeStacks", "Error")>>)
    ELSE IF ~cf.exists
         THEN Outcome(cf, TRUE, AbsentStack, <<Call("DescribeStacks", "DoesNotExist")>>)
         ELSE Outcome(cf, TRUE, cf, <<Call("DescribeStacks", "Found")>>)

\* An operation's calls followed by a last DescribeStack, whose result it returns.
ThenDescribe(cf, calls, apiOk) ==
    LET d == DescribeStack(cf, apiOk)
    IN  Outcome(cf, d.ok, d.stack, calls \o d.calls)

\* assets.go:247-280: create, wait for completion, describe. The backend
\* refuses to create a stack that exists; a failed creation is rolled back
\* (OnFailure: ROLLBACK) and leaves the stack in ROLLBACK_COMPLETE.
CreateStack(cf, body, ans) ==
    IF cf.exists \/ ~ans.callOk
    THEN Outcome(cf, FALSE, AbsentStack, <<Call("CreateStack", "Error")>>)
    ELSE IF ~ans.waitOk
    THEN Outcome(PresentStack(body, "ROLLBACK_COMPLETE"), FALSE, AbsentStack,
                 <<Call("CreateStack", "Ok"), Call("WaitCreateComplete", "Error")>>)
    ELSE ThenDescribe(PresentStack(body, "CREATE_COMPLETE"),
                      <<Call("CreateStack", "Ok"), Call("WaitCreateComplete", "Ok")>>,
                      ans.finalOk)

\* The UpdateStack request of the backend: refused for a stack that is absent
\* or rolled back after a failed creation, "No updates are to be performed"
\* for an identical template.
UpdateRequest(cf, body, ans) ==
    IF ~cf.exists \/ cf.status = "ROLLBACK_COMPLETE" \/ ~ans.callOk THEN "Error"
    ELSE IF cf.body = body THEN "NoUpdates"
    ELSE "Ok"

\* assets.go:300-335: update; "No updates are to be performed" returns the
\* described stack at once, any other error panics; otherwise wait for
\* completion and describe. A failed update is rolled back to the old body.
UpdateStack(cf, body, ans) ==
    LET req == UpdateRequest(cf, body, ans)
    IN  IF req = "Error"
        THEN Outcome(cf, FALSE, AbsentStack, <<Call("UpdateStack", "Error")>>)
        ELSE IF req = "NoUpdates"
        THEN ThenDescribe(cf, <<Call("UpdateStack", "NoUpdates")>>, ans.finalOk)
        ELSE IF ~ans.waitOk
        THEN Outcome(PresentStack(cf.body, "UPDATE_ROLLBACK_COMPLETE"), FALSE, AbsentStack,
                     <<Call("UpdateStack", "Ok"), Call("WaitUpdateComplete", "Error")>>)
        ELSE ThenDescribe(PresentStack(body, "UPDATE_COMPLETE"),
                          <<Call("UpdateStack", "Ok"), Call("WaitUpdateComplete", "Ok")>>,
                          ans.finalOk)

\* The same operation choosing by the template instead of describing first.
UpsertStackBlind(cf, body, ans) ==
    LET r == IF body = "t1" THEN CreateStack(cf, body, ans) ELSE UpdateStack(cf, body, ans)
    IN  Outcome(r.cf, r.ok, r.stack, r.calls)

\* An UpsertStack that returns to its caller when the backend has failed.
UpsertStackErrorsIgnored(cf, body, ans) ==
    LET r == IF ~cf.exists THEN CreateStack(cf, body, ans) ELSE UpdateStack(cf, body, ans)
    IN  Outcome(r.cf, TRUE, r.stack, r.calls)

\* assets.go:338-343: describe; create when DescribeStack returned nil,
\* update otherwise.
UpsertStack(cf, body, ans) ==
    LET d == DescribeStack(cf, ans.describeOk)
    IN  IF ~d.ok THEN d
        ELSE LET r == IF ~d.stack.exists
                      THEN CreateStack(cf, body, ans)
                      ELSE UpdateStack(cf, body, ans)
             IN  Outcome(r.cf, r.ok, r.stack, d.calls \o r.calls)

\* The copy of the operation kept in package cloudz (src/unnamed/part_002:286-317,
\* src/cloudz/operations.go:289-320): every error of the request panics.
CloudzUpdateStack(cf, body, ans) ==
    LET req == UpdateRequest(cf, body, ans)
    IN  IF req # "Ok"
        THEN Outcome(cf, FALSE, AbsentStack, <<Call("UpdateStack", req)>>)
        ELSE IF ~ans.waitOk
        THEN Outcome(PresentStack(cf.body, "UPDATE_ROLLBACK_COMPLETE"), FALSE, AbsentStack,
                     <<Call("UpdateStack", "Ok"), Call("WaitUpdateComplete", "Error")>>)
        ELSE ThenDescribe(PresentStack(body, "UPDATE_COMPLETE"),
                          <<Call("UpdateStack", "Ok"), Call("WaitUpdateComplete", "Ok")>>,
                          ans.finalOk)

\* The copy of UpsertStack kept in package cloudz (src/unnamed/part_002:318-324).
CloudzUpsertStack(cf, body, ans) ==
    LET d == DescribeStack(cf, ans.describeOk)
    IN  IF ~d.ok THEN d
        ELSE LET r == IF ~d.stack.exists
                      THEN CreateStack(cf, body, ans)
                      ELSE CloudzUpdateStack(cf, body, ans)
             IN  Outcome(r.cf, r.ok, r.stack, d.calls \o r.calls)

NoOperation == [op |-> "none", body |-> "none", before |-> AbsentStack,
                answers |-> [describeOk |-> TRUE, callOk |-> TRUE, waitOk |-> TRUE,
                             finalOk |-> TRUE]]

NoResult == [ok |-> FALSE, stack |-> AbsentStack]

InitOps ==
    /\ IdleBuckets
    /\ IdleSecrets
    /\ IdlePlugin
    /\ IdleStage
    /\ IdleApp
    /\ IdleNames
    /\ cfStack \in BackendStacks
    /\ opsLast = NoOperation
    /\ opsCalls = <<>>
    /\ opsResult = NoResult
    /\ opsCount = 0

\* One operation made on the stack, recorded with what it found and did.
Operate(op, body, ans, r) ==
    /\ cfStack' = r.cf
    /\ opsLast' = [op |-> op, body |-> body, before |-> cfStack, answers |-> ans]
    /\ opsCalls' = r.calls
    /\ opsResult' = [ok |-> r.ok, stack |-> r.stack]
    /\ opsCount' = opsCount + 1
    /\ UNCHANGED notOpsVars

DoDescribeStack ==
    \E ans \in Answers :
        /\ opsCount < MaxOps
        /\ ans.callOk /\ ans.waitOk /\ ans.finalOk
        /\ Operate("DescribeStack", "none", ans, DescribeStack(cfStack, ans.describeOk))

DoCreateStack ==
    \E body \in TemplateBodies, ans \in Answers :
        /\ opsCount < MaxOps
        /\ ans.describeOk
        /\ Operate("CreateStack", body, ans, CreateStack(cfStack, body, ans))

DoUpdateStack ==
    \E body \in TemplateBodies, ans \in Answers :
        /\ opsCount < MaxOps
        /\ ans.describeOk
        /\ Operate("UpdateStack", body, ans, UpdateStack(cfStack, body, ans))

DoUpsertStack ==
    \E body \in TemplateBodies, ans \in Answers :
        /\ opsCount < MaxOps
        /\ Operate("UpsertStack", body, ans, UpsertStack(cfStack, body, ans))

DoCloudzUpdateStack ==
    \E body \in TemplateBodies, ans \in Answers :
        /\ opsCount < MaxOps
        /\ ans.describeOk
        /\ Operate("cloudz.UpdateStack", body, ans, CloudzUpdateStack(cfStack, body, ans))

DoCloudzUpsertStack ==
    \E body \in TemplateBodies, ans \in Answers :
        /\ opsCount < MaxOps
        /\ Operate("cloudz.UpsertStack", body, ans, CloudzUpsertStack(cfStack, body, ans))

NextOps ==
    \/ DoDescribeStack
    \/ DoCreateStack
    \/ DoUpdateStack
    \/ DoUpsertStack
    \/ DoCloudzUpdateStack
    \/ DoCloudzUpsertStack

SpecOps == InitOps /\ [][NextOps]_vars

----------------------------------------------------------------------------
(* NewApp: the dependency leveler, src/cloudz/app.go:86-119 *)

\* app.go:92-94: pluginsMap[plugin] = plugin.GetDependenciesMap()
BuildPluginsMap(plugins, d) == [p \in plugins |-> d[p]]

\* A leveler that also takes a plugin with one dependency left.
ReadyPluginsLoose(pm) == {p \in DOMAIN pm : Cardinality(pm[p]) <= 1}

\* A leveler that resolves one plugin per wave, the smallest that is ready.
ReadyPluginsOneByOne(pm) ==
    LET ready == {p \in DOMAIN pm : pm[p] = {}}
    IN  {p \in ready : \A q \in ready : p <= q}

\* app.go:99-103: the plugins whose residual dependency set is empty.
ReadyPlugins(pm) == {p \in DOMAIN pm : Cardinality(pm[p]) = 0}

\* A leveler that deletes the wave's plugins from the residual sets only.
RemoveResolvedKeepsKeys(pm, wave) == [p \in DOMAIN pm |-> pm[p] \ wave]

\* app.go:105-111: delete the wave's plugins from the map and from every
\* remaining residual set.
RemoveResolved(pm, wave) == [p \in (DOMAIN pm) \ wave |-> pm[p] \ wave]

\* A GetDependenciesMap that returns the plugin's own map: the deletes of
\* the leveler then reach the declared dependencies.
DeclaredAfterDeleteAliased(d, wave) == [p \in DOMAIN d |-> d[p] \ wave]

\* What the plugins declare after the deletes of app.go:105-111:
\* GetDependenciesMap builds a new map on every call
\* (plugin_bucket.go:151-157), so the deletes act on NewApp's copies only.
DeclaredAfterDelete(d, wave) == d

InitApp ==
    /\ IdleBuckets
    /\ IdleSecrets
    /\ IdlePlugin
    /\ IdleStage
    /\ IdleNames
    /\ IdleOps
    /\ cfgPlugins \in SUBSET Universe
    /\ deps \in {d \in [Universe -> SUBSET Universe] :
                    \A p \in Universe \ cfgPlugins : d[p] = {}}
    /\ pluginsMap = <<>>
    /\ sortedPlugins = <<>>
    /\ appPc = "start"

\* app.go:87-94
NewAppBuildMap ==
    /\ appPc = "start"
    /\ pluginsMap' = BuildPluginsMap(cfgPlugins, deps)
    /\ sortedPlugins' = <<>>
    /\ appPc' = "leveling"
    /\ UNCHANGED <<cfgPlugins, deps, notAppVars>>

\* app.go:96-112: one iteration of the loop. The map range of lines 99-103
\* visits the ready plugins in an unspecified order.
LevelIteration ==
    /\ appPc = "leveling"
    /\ DOMAIN pluginsMap # {}
    /\ Len(sortedPlugins) < MaxWaves
    /\ \E wave \in OrdersOf(ReadyPlugins(pluginsMap)) :
          /\ sortedPlugins' = Append(sortedPlugins, wave)
          /\ pluginsMap' = RemoveResolved(pluginsMap, Range(wave))
          /\ deps' = DeclaredAfterDelete(deps, Range(wave))
    /\ UNCHANGED <<cfgPlugins, appPc, notAppVars>>

\* app.go:96 (loop exit) and 114-118
NewAppReturn ==
    /\ appPc = "leveling"
    /\ DOMAIN pluginsMap = {}
    /\ appPc' = "ready"
    /\ UNCHANGED <<cfgPlugins, deps, pluginsMap, sortedPlugins, notAppVars>>

NextApp == NewAppBuildMap \/ LevelIteration \/ NewAppReturn

SpecApp == InitApp /\ [][NextApp]_vars

----------------------------------------------------------------------------
(* The stages: NewLocalStage (src/unnamed/part_003:40-66), NewCloudStage   *)
(* (src/unnamed/part_004:38-56) and CloudStage.Deploy (part_004:122-148),  *)
(* built on the App that NewApp returned.                                  *)

\* The nested range over GetSortedPlugins: the waves one after the other.
RECURSIVE Flatten(_)
Flatten(waves) == IF waves = <<>> THEN <<>> ELSE Head(waves) \o Flatten(Tail(waves))

NumSorted == Len(Flatten(sortedPlugins))

\* The same range taken from the last plugin to the first.
PluginAtReversed(i) == Flatten(sortedPlugins)[NumSorted + 1 - i]

\* The plugin the loops of the constructors and of Deploy visit i-th.
PluginAt(i) == Flatten(sortedPlugins)[i]

\* A stage that takes every plugin to have a cloud template.
HasCloudTemplateAlways(p) == TRUE

\* part_004:127-130: `tpl := plugin.GetCloudTemplate(buildDirPath)` is not nil;
\* mailImpl.GetCloudTemplate returns nil (part_011:192-195).
HasCloudTemplate(p) == p \in units

\* The template body a plugin's GetCloudTemplate builds.
TemplateOf(p) == "t1"

\* postgresImpl.GetCloudTemplate (part_010:276-298) and its like read
\* GetCloudMetadata(true) of the dependencies that have a stack; it panics
\* with "cloud not deployed" when a dependency's cloudMetadata is nil.
RequiredMetadata(p) == deps[p] \cap units

\* UpdateCloudMetadata that drops the stack it is given.
UpdateCloudMetadataDropped(meta, p, stack) == meta

\* Plugin.UpdateCloudMetadata (part_010:370-383): cloudMetadata is built
\* from the stack's outputs.
UpdateCloudMetadata(meta, p, stack) == [meta EXCEPT ![p] = stack]

\* Plugin.IsDeployed (part_010:201-203)
IsDeployed(p) == cloudMetadata[p] # AbsentStack

\* The steps of one iteration of Deploy's loop with the before-deploy hook
\* fired after the upsert.
NextDeployStepHookLate(step) ==
    CASE step = "GetCloudTemplate" -> "UpsertStack"
      [] step = "UpsertStack" -> "CloudBeforeDeployEvent"
      [] step = "CloudBeforeDeployEvent" -> "UpdateCloudMetadata"
      [] step = "UpdateCloudMetadata" -> "CloudAfterDeployEvent"
      [] OTHER -> "Next"

\* part_004:127-145: the steps of one iteration of Deploy's loop.
NextDeployStep(step) ==
    CASE step = "GetCloudTemplate" -> "CloudBeforeDeployEvent"
      [] step = "CloudBeforeDeployEvent" -> "UpsertStack"
      [] step = "UpsertStack" -> "UpdateCloudMetadata"
      [] step = "UpdateCloudMetadata" -> "CloudAfterDeployEvent"
      [] OTHER -> "Next"

Pc(phase, at, step) == [phase |-> phase, at |-> at, step |-> step]

\* A loop that recovers from a panic and goes on with the next plugin.
Recovered(message) ==
    Pc(stagePc.phase, stagePc.at + 1,
       IF stagePc.phase = "new" THEN "Configure" ELSE "GetCloudTemplate")

\* A constructor that recovers from a panic and returns the stage all the same.
ReturnedAnyway(message) == Pc("ready", 0, message)

\* A panic (errorz.MaybeMustWrap, errorz.Assertf) is not recovered by the
\* stage: the constructor or operation ends where it stands.
Panicked(message) == Pc("panicked", stagePc.at, message)

\* Where a loop stands after the step that was just made.
After(step) ==
    IF NextDeployStep(step) = "Next"
    THEN Pc(stagePc.phase, stagePc.at + 1,
            IF stagePc.phase = "new" THEN "Configure" ELSE "GetCloudTemplate")
    ELSE Pc(stagePc.phase, stagePc.at, NextDeployStep(step))

Event(p, step, stack) == [plugin |-> p, step |-> step, stack |-> stack]

\* A set of plugins as a sequence in ascending order.
Ascending(S) == CHOOSE s \in OrdersOf(S) : \A i, j \in 1..Len(s) : i < j => s[i] < s[j]

\* The waves the loop of NewApp (app.go:96-112) builds from a plugins map,
\* each wave in ascending order.
RECURSIVE SortedPluginsFrom(_)
SortedPluginsFrom(pm) ==
    IF DOMAIN pm = {} THEN <<>>
    ELSE <<Ascending(ReadyPlugins(pm))>>
            \o SortedPluginsFrom(RemoveResolved(pm, ReadyPlugins(pm)))

\* A stage is built on the App that NewApp returned for plugins that are all
\* listed and whose dependencies are acyclic. The plugins are numbered so
\* that a plugin's dependencies have smaller numbers and a wave is visited
\* in ascending order: every other App is one of these with its plugins
\* renamed, and the stages do not look at the names.
InitStage ==
    /\ IdleBuckets
    /\ IdleSecrets
    /\ IdlePlugin
    /\ IdleNames
    /\ IdleOps
    /\ cfgPlugins = Universe
    /\ deps \in {d \in [Universe -> SUBSET Universe] : \A p \in Universe : d[p] \subseteq 1..(p - 1)}
    /\ pluginsMap = <<>>
    /\ sortedPlugins = SortedPluginsFrom(BuildPluginsMap(cfgPlugins, deps))
    /\ appPc = "ready"
    /\ stageKind \in {"local", "cloud"}
    /\ units \in SUBSET Universe
    /\ stacks \in [Universe -> {AbsentStack, PresentStack("t2", "CREATE_COMPLETE")}]
    /\ \A p \in Universe : (p \notin units \/ stageKind = "local") => stacks[p] = AbsentStack
    /\ stageKind = "local" => units = {}
    /\ configured = {}
    /\ cloudMetadata = [p \in Universe |-> AbsentStack]
    /\ localBuilt = {}
    /\ stagePc = Pc("none", 0, "none")
    /\ upserted = AbsentStack
    /\ events = <<>>
    /\ deployCount = 0
    /\ running = {}
    /\ createCount = 0

\* part_003:41-57, part_004:39-43: the stage object, before the loop.
NewStage ==
    /\ appPc = "ready"
    /\ stagePc.phase = "none"
    /\ stagePc' = Pc("new", 1, "Configure")
    /\ UNCHANGED <<stageKind, units, stacks, configured, cloudMetadata, localBuilt, upserted,
                   events, deployCount, composeVars,
                   notStageVars>>

\* part_003:61, part_004:47: plugin.Configure(stage) sets the plugin's cfg,
\* then validates it (part_010:167-170).
Configure ==
    /\ stagePc.phase = "new"
    /\ stagePc.step = "Configure"
    /\ stagePc.at <= NumSorted
    /\ configured' = configured \cup {PluginAt(stagePc.at)}
    /\ \E valid \in BOOLEAN :
          stagePc' = IF ~valid THEN Panicked("invalid config")
                     ELSE Pc("new", stagePc.at,
                             IF stageKind = "local" THEN "UpdateLocalTemplate" ELSE "DescribeStack")
    /\ UNCHANGED <<stageKind, units, stacks, cloudMetadata, localBuilt, upserted, events,
                   deployCount, composeVars,
                   notStageVars>>

\* part_003:62-63
UpdateLocalTemplate ==
    /\ stagePc.phase = "new"
    /\ stagePc.step = "UpdateLocalTemplate"
    /\ localBuilt' = localBuilt \cup {PluginAt(stagePc.at)}
    /\ stagePc' = Pc("new", stagePc.at + 1, "Configure")
    /\ UNCHANGED <<stageKind, units, stacks, configured, cloudMetadata, upserted, events,
                   deployCount, composeVars,
                   notStageVars>>

\* part_004:49-51: the plugin's stack is described and, when it exists, the
\* plugin's cloud metadata is built from it.
DescribeAndUpdateCloudMetadata ==
    /\ stagePc.phase = "new"
    /\ stagePc.step = "DescribeStack"
    /\ \E apiOk \in BOOLEAN :
          LET p == PluginAt(stagePc.at)
              d == DescribeStack(stacks[p], apiOk)
          IN  /\ cloudMetadata' = IF d.ok /\ d.stack.exists
                                  THEN UpdateCloudMetadata(cloudMetadata, p, d.stack)
                                  ELSE cloudMetadata
              /\ stagePc' = IF d.ok THEN Pc("new", stagePc.at + 1, "Configure")
                            ELSE Panicked("backend")
    /\ UNCHANGED <<stageKind, units, stacks, configured, localBuilt, upserted, events,
                   deployCount, composeVars,
                   notStageVars>>

\* part_003:65, part_004:55: the constructor returns the stage.
NewStageReturn ==
    /\ stagePc.phase = "new"
    /\ stagePc.at > NumSorted
    /\ stagePc' = Pc("ready", 0, "none")
    /\ UNCHANGED <<stageKind, units, stacks, configured, cloudMetadata, localBuilt, upserted,
                   events, deployCount, composeVars,
                   notStageVars>>

\* part_004:122-123: Deploy is called on a cloud stage.
Deploy ==
    /\ stageKind = "cloud"
    /\ stagePc.phase = "ready"
    /\ deployCount < MaxDeploys
    /\ deployCount' = deployCount + 1
    /\ events' = <<>>
    /\ stagePc' = Pc("deploy", 1, "GetCloudTemplate")
    /\ UNCHANGED <<stageKind, units, stacks, configured, cloudMetadata, localBuilt, upserted,
                   composeVars,
                   notStageVars>>

\* part_004:125-130: the plugin builds its template; a plugin without one
\* is skipped.
DeployGetCloudTemplate ==
    /\ stagePc.phase = "deploy"
    /\ stagePc.step = "GetCloudTemplate"
    /\ stagePc.at <= NumSorted
    /\ LET p == PluginAt(stagePc.at)
       IN  /\ events' = Append(events, Event(p, "GetCloudTemplate", AbsentStack))
           /\ stagePc' = IF ~HasCloudTemplate(p)
                         THEN Pc("deploy", stagePc.at + 1, "GetCloudTemplate")
                         ELSE IF \E d \in RequiredMetadata(p) : ~IsDeployed(d)
                         THEN Panicked("cloud not deployed")
                         ELSE After("GetCloudTemplate")
    /\ UNCHANGED <<stageKind, units, stacks, configured, cloudMetadata, localBuilt, upserted,
                   deployCount, composeVars,
                   notStageVars>>

\* part_004:135 and 145: a hook is fired; the hook of the configuration may panic.
DeployEventHook ==
    /\ stagePc.phase = "deploy"
    /\ stagePc.step \in {"CloudBeforeDeployEvent", "CloudAfterDeployEvent"}
    /\ events' = Append(events, Event(PluginAt(stagePc.at), stagePc.step, AbsentStack))
    /\ \E hookOk \in BOOLEAN :
          stagePc' = IF hookOk THEN After(stagePc.step) ELSE Panicked("hook")
    /\ UNCHANGED <<stageKind, units, stacks, configured, cloudMetadata, localBuilt, upserted,
                   deployCount, composeVars,
                   notStageVars>>

\* part_004:138-143: the argument of UpdateCloudMetadata is evaluated.
DeployUpsertStack ==
    /\ stagePc.phase = "deploy"
    /\ stagePc.step = "UpsertStack"
    /\ \E ans \in Answers :
          LET p == PluginAt(stagePc.at)
              r == UpsertStack(stacks[p], TemplateOf(p), ans)
          IN  /\ stacks' = [stacks EXCEPT ![p] = r.cf]
              /\ upserted' = r.stack
              /\ events' = Append(events, Event(p, "UpsertStack", r.stack))
              /\ stagePc' = IF r.ok THEN After("UpsertStack") ELSE Panicked("backend")
    /\ UNCHANGED <<stageKind, units, configured, cloudMetadata, localBuilt, deployCount,
                   composeVars,
                   notStageVars>>

\* part_004:137: the plugin's cloud metadata is built from the upserted stack.
DeployUpdateCloudMetadata ==
    /\ stagePc.phase = "deploy"
    /\ stagePc.step = "UpdateCloudMetadata"
    /\ LET p == PluginAt(stagePc.at)
       IN  /\ cloudMetadata' = UpdateCloudMetadata(cloudMetadata, p, upserted)
           /\ events' = Append(events, Event(p, "UpdateCloudMetadata", upserted))
    /\ upserted' = AbsentStack
    /\ stagePc' = After("UpdateCloudMetadata")
    /\ UNCHANGED <<stageKind, units, stacks, configured, localBuilt, deployCount, composeVars,
                   notStageVars>>

\* part_004:123 (the loops' exit) and 148
DeployReturn ==
    /\ stagePc.phase = "deploy"
    /\ stagePc.at > NumSorted
    /\ stagePc' = Pc("ready", 0, "none")
    /\ UNCHANGED <<stageKind, units, stacks, configured, cloudMetadata, localBuilt, upserted,
                   events, deployCount, composeVars,
                   notStageVars>>

NextStage ==
    \/ NewStage
    \/ Configure
    \/ UpdateLocalTemplate
    \/ DescribeAndUpdateCloudMetadata
    \/ NewStageReturn
    \/ Deploy
    \/ DeployGetCloudTemplate
    \/ DeployEventHook
    \/ DeployUpsertStack
    \/ DeployUpdateCloudMetadata
    \/ DeployReturn

SpecStage == InitStage /\ [][NextStage]_vars

----------------------------------------------------------------------------
(* LocalStage.Create and LocalStage.Destroy, src/unnamed/part_003:110-152 *)

\* The services of the stage's localTemplate: a plugin with local services
\* adds them in UpdateLocalTemplate (part_010:206-274); they are named here
\* by the plugin.
LocalTemplateServices == localBuilt \cap units

\* A service of the project that is not in the template: left by an earlier
\* version of the App.
OrphanService == NumPlugins + 1

\* A "down" that leaves the project's services running.
ComposeDownKeeps(run) == run

\* part_003:138, docker-compose -p <app> down -v --rmi local --remove-orphans:
\* no service of the project is left.
ComposeDown(run) == {}

\* part_003:120, docker-compose -p <app> up --build -d --remove-orphans: the
\* services of the template run, and no other service of the project.
ComposeUp(run, services) == services

\* Create with the specification applied before the before-create hooks.
NextCreateStepUpFirst(step) ==
    CASE step = "Destroy" -> "up"
      [] step = "up" -> "LocalBeforeCreateEvent"
      [] step = "LocalBeforeCreateEvent" -> "LocalAfterCreateEvent"
      [] OTHER -> "Return"

\* part_003:111-126: the statements of Create.
NextCreateStep(step) ==
    CASE step = "Destroy" -> "LocalBeforeCreateEvent"
      [] step = "LocalBeforeCreateEvent" -> "up"
      [] step = "up" -> "LocalAfterCreateEvent"
      [] OTHER -> "Return"

\* The stage itself as the receiver of a call, where the plugins are 1..NumPlugins.
TheStage == 0

\* What Create and Destroy leave alone.
createFrame == <<stageKind, units, stacks, configured, cloudMetadata, localBuilt, upserted,
                 deployCount, notStageVars>>

\* A local stage is built on the App as in InitStage; the docker-compose
\* project is empty or holds a service of an earlier version of the App.
InitLocal ==
    /\ IdleBuckets
    /\ IdleSecrets
    /\ IdlePlugin
    /\ IdleNames
    /\ IdleOps
    /\ cfgPlugins = Universe
    /\ deps \in {d \in [Universe -> SUBSET Universe] : \A p \in Universe : d[p] \subseteq 1..(p - 1)}
    /\ pluginsMap = <<>>
    /\ sortedPlugins = SortedPluginsFrom(BuildPluginsMap(cfgPlugins, deps))
    /\ appPc = "ready"
    /\ stageKind = "local"
    /\ units \in SUBSET Universe
    /\ stacks = [p \in Universe |-> AbsentStack]
    /\ configured = {}
    /\ cloudMetadata = [p \in Universe |-> AbsentStack]
    /\ localBuilt = {}
    /\ stagePc = Pc("none", 0, "none")
    /\ upserted = AbsentStack
    /\ events = <<>>
    /\ deployCount = 0
    /\ running \in {{}, {OrphanService}}
    /\ createCount = 0

\* part_003:111: Create is called on a local stage.
Create ==
    /\ stageKind = "local"
    /\ stagePc.phase = "ready"
    /\ createCount < MaxCreates
    /\ createCount' = createCount + 1
    /\ events' = <<>>
    /\ stagePc' = Pc("create", 0, "Destroy")
    /\ UNCHANGED <<running, createFrame>>

\* part_003:112: Create calls Destroy (part_003:130-139); a failing command panics.
CreateDestroy ==
    /\ stagePc.phase = "create"
    /\ stagePc.step = "Destroy"
    /\ events' = Append(events, Event(TheStage, "down", AbsentStack))
    /\ \E cmdOk \in BOOLEAN :
          /\ running' = IF cmdOk THEN ComposeDown(running) ELSE running
          /\ stagePc' = IF cmdOk THEN Pc("create", 1, NextCreateStep("Destroy"))
                        ELSE Panicked("docker-compose")
    /\ UNCHANGED <<createCount, createFrame>>

\* part_003:114-118 and 122-126: one hook of one plugin; after the last
\* plugin's hook the next statement of Create follows.
CreateEventHook ==
    /\ stagePc.phase = "create"
    /\ stagePc.step \in {"LocalBeforeCreateEvent", "LocalAfterCreateEvent"}
    /\ events' = Append(events, Event(PluginAt(stagePc.at), stagePc.step, AbsentStack))
    /\ \E hookOk \in BOOLEAN :
          stagePc' = IF ~hookOk THEN Panicked("hook")
                     ELSE IF stagePc.at < NumSorted
                     THEN Pc("create", stagePc.at + 1, stagePc.step)
                     ELSE Pc("create", 1, NextCreateStep(stagePc.step))
    /\ UNCHANGED <<running, createCount, createFrame>>

\* part_003:120: the composed specification is applied; a failing command
\* panics and may leave some of the services running.
CreateUp ==
    /\ stagePc.phase = "create"
    /\ stagePc.step = "up"
    /\ events' = Append(events, Event(TheStage, "up", AbsentStack))
    /\ \/ /\ running' = ComposeUp(running, LocalTemplateServices)
          /\ stagePc' = Pc("create", 1, NextCreateStep("up"))
       \/ /\ running' \in SUBSET (running \cup ComposeUp(running, LocalTemplateServices))
          /\ stagePc' = Panicked("docker-compose")
    /\ UNCHANGED <<createCount, createFrame>>

\* part_003:127
CreateReturn ==
    /\ stagePc.phase = "create"
    /\ stagePc.step = "Return"
    /\ stagePc' = Pc("ready", 0, "none")
    /\ UNCHANGED <<running, createCount, events, createFrame>>

\* part_003:130-139: Destroy is called on a local stage.
Destroy ==
    /\ stageKind = "local"
    /\ stagePc.phase = "ready"
    /\ \E cmdOk \in BOOLEAN :
          /\ running' = IF cmdOk THEN ComposeDown(running) ELSE running
          /\ stagePc' = IF cmdOk THEN stagePc ELSE Panicked("docker-compose")
    /\ UNCHANGED <<createCount, events, createFrame>>

NextLocal ==
    \/ NewStage
    \/ Configure
    \/ UpdateLocalTemplate
    \/ NewStageReturn
    \/ Create
    \/ CreateDestroy
    \/ CreateEventHook
    \/ CreateUp
    \/ CreateReturn
    \/ Destroy

SpecLocal == InitLocal /\ [][NextLocal]_vars

----------------------------------------------------------------------------
(* One plugin object and the methods of the Plugin interface               *)
(* (src/unnamed/part_000:20-33), as implemented by bucketImpl              *)
(* (src/cloudz/plugin_bucket.go), hasuraImpl (src/unnamed/part_005) and    *)
(* mailImpl (src/unnamed/part_011:1-207).                                  *)

PluginKinds == {"bucket", "hasura", "mail"}

\* The stages built on the one App: a LocalStage and a CloudStage.
StageNames == {"local", "cloud"}

\* The nil of the cfg, localMetadata and cloudMetadata fields after NewBucket,
\* NewHasura or NewMail.
NoConfig == [Stage |-> "nil"]

NoCall ==
    [method |-> "none", arg |-> "none", configured |-> FALSE, outcome |-> "none",
     trace |-> <<>>]

\* How a call ends: "returns", "returns nil", the message of an errorz.Assertf
\* that failed, or "nil dereference", the runtime panic of reading a field of
\* the nil p.cfg.
Called(method, arg, outcome) ==
    [method |-> method, arg |-> arg, configured |-> cfg # NoConfig, outcome |-> outcome,
     trace |-> <<>>]

\* GetStage asserts p.cfg != nil (plugin_bucket.go:166-169, part_005:216-219,
\* part_011:128-131).
GetStageOutcome == IF cfg = NoConfig THEN "plugin not configured" ELSE "returns"

\* How each method ends on a plugin of the kind. A method that reads a field
\* of p.cfg first dereferences nil when Configure has not run; one that
\* starts with CloudGetStackName or LocalGetContainerName calls p.GetStage()
\* first (utils_cloud.go:252-264, utils_local.go:16-27).
MethodOutcome(kind, method) ==
    LET viaCfg == IF cfg = NoConfig THEN "nil dereference" ELSE "returns"
    IN  CASE method = "GetStage" -> GetStageOutcome
          [] method = "GetInstanceName" ->
                IF kind = "bucket" THEN viaCfg ELSE "returns nil"
          [] method = "EventHook" -> viaCfg
          [] method = "UpdateLocalTemplate" ->
                IF kind = "bucket" THEN viaCfg ELSE GetStageOutcome
          [] method = "GetCloudTemplate" ->
                IF kind = "mail" THEN "returns nil" ELSE GetStageOutcome
          [] method = "UpdateCloudMetadata" ->
                CASE kind = "bucket" -> GetStageOutcome
                  [] kind = "hasura" -> viaCfg
                  [] kind = "mail" -> "returns"

\* errorz.Assertf(!require || p.cloudMetadata != nil, "cloud not deployed", ...)
\* and errorz.Assertf(p.localMetadata != nil, "local not deployed", ...), then
\* the return of the field.
MetadataOutcome(require, present, message) ==
    IF require /\ ~present THEN message
    ELSE IF present THEN "returns" ELSE "returns nil"

\* AppConfig.GetBuildDirPathForPlugin, src/cloudz/app.go:39-52: the build
\* directory of a plugin is named after p.GetStage().GetName().
GetBuildDirPathForPlugin ==
    IF cfg = NoConfig THEN <<"plugin not configured">>
    ELSE <<"build", cfg.Stage, pluginKind>>

\* What a stage that holds the plugin sees of it.
Observed ==
    [GetStage |-> cfg.Stage,
     GetConfig |-> cfg,
     buildDir |-> GetBuildDirPathForPlugin,
     localMetadata |-> localMetadata,
     cloudMetadata |-> pluginCloudMetadata]

\* Event, src/unnamed/part_000:11-18.
LifecycleEvents == {"localBeforeCreate", "localAfterCreate", "cloudBeforeDeploy", "cloudAfterDeploy"}

\* The switch of EventHook: hasuraImpl handles three events itself
\* (part_005:614-621); bucketImpl and mailImpl none (plugin_bucket.go:333-337,
\* part_011:203-207).
BuiltInHandling(kind, event) == kind = "hasura" /\ event # "cloudAfterDeploy"

\* An EventHook that invokes the callback of the config before its switch.
HookTraceCallbackFirst(builtin, ok, callback) ==
    (IF callback THEN <<"callback">> ELSE <<>>) \o (IF builtin THEN <<"builtin">> ELSE <<>>)

\* What one EventHook call runs, in order: the case of the switch, then,
\* when it returned, `if p.cfg.EventHook != nil { p.cfg.EventHook(...) }`
\* (part_005:614-625).
HookTrace(builtin, ok, callback) ==
    (IF builtin THEN <<"builtin">> ELSE <<>>) \o (IF ok /\ callback THEN <<"callback">> ELSE <<>>)

\* A plugin as a constructor returned it: every field but cfgFunc and deps nil.
InitPlugin ==
    /\ IdleBuckets
    /\ IdleSecrets
    /\ IdleApp
    /\ IdleNames
    /\ IdleOps
    /\ IdleStage
    /\ pluginKind \in PluginKinds
    /\ cfg = NoConfig
    /\ localMetadata = FALSE
    /\ pluginCloudMetadata = AbsentStack
    /\ heldBy = {}
    /\ updateReturned = FALSE
    /\ call = NoCall

\* Configure, plugin_bucket.go:160-163 (part_005:210-213, part_011:122-125),
\* as the constructor of the stage calls it: p.cfg is assigned first, then
\* MustValidate panics on an invalid config.
PluginConfigure ==
    \E stage \in StageNames, valid \in BOOLEAN :
        /\ pluginKind \in PluginKinds
        /\ \E hook \in BOOLEAN : cfg' = [Stage |-> stage, EventHook |-> hook]
        /\ heldBy' = IF valid THEN heldBy \cup {stage} ELSE heldBy
        /\ call' = [Called("Configure", stage,
                           IF valid THEN "returns" ELSE "invalid config")
                       EXCEPT !.configured = TRUE]
        /\ UNCHANGED <<pluginKind, localMetadata, pluginCloudMetadata, updateReturned,
                       notPluginVars>>

\* GetStage, GetInstanceName and GetCloudTemplate: plugin_bucket.go:146-148,
\* 166-169, 249-321.
PluginRead ==
    \E method \in {"GetStage", "GetInstanceName", "GetCloudTemplate"} :
        /\ pluginKind \in PluginKinds
        /\ call' = Called(method, "none", MethodOutcome(pluginKind, method))
        /\ UNCHANGED <<pluginKind, cfg, localMetadata, pluginCloudMetadata, heldBy,
                       updateReturned, notPluginVars>>

\* EventHook, part_005:613-626 and plugin_bucket.go:333-337. On a plugin that
\* was not configured the event is CloudAfterDeployEvent, which no kind
\* handles before it reads p.cfg.EventHook. A built-in handler runs commands
\* and writes files, and panics when one of them fails.
PluginEventHook ==
    \E event \in IF cfg = NoConfig THEN {"cloudAfterDeploy"} ELSE LifecycleEvents,
       builtinOk \in BOOLEAN :
        LET builtin == BuiltInHandling(pluginKind, event)
            ok == builtinOk \/ ~builtin
        IN  /\ pluginKind \in PluginKinds
            /\ call' = [Called("EventHook", event,
                               IF cfg = NoConfig THEN MethodOutcome(pluginKind, "EventHook")
                               ELSE IF ok THEN "returns" ELSE "panic in handler")
                           EXCEPT !.trace = IF cfg = NoConfig THEN <<>>
                                            ELSE HookTrace(builtin, ok, cfg.EventHook)]
            /\ UNCHANGED <<pluginKind, cfg, localMetadata, pluginCloudMetadata, heldBy,
                           updateReturned, notPluginVars>>

\* UpdateLocalTemplate, plugin_bucket.go:194-246 (part_005:255-343,
\* part_011:155-189): sets p.localMetadata.
PluginUpdateLocalTemplate ==
    LET outcome == MethodOutcome(pluginKind, "UpdateLocalTemplate")
    IN  /\ pluginKind \in PluginKinds
        /\ call' = Called("UpdateLocalTemplate", "none", outcome)
        /\ localMetadata' = IF outcome = "returns" THEN TRUE ELSE localMetadata
        /\ UNCHANGED <<pluginKind, cfg, pluginCloudMetadata, heldBy, updateReturned,
                       notPluginVars>>

\* UpdateCloudMetadata, plugin_bucket.go:324-330 and part_005:605-610 set
\* p.cloudMetadata from the stack; part_011:198-200 does nothing.
PluginUpdateCloudMetadata ==
    \E template \in TemplateBodies :
        LET outcome == MethodOutcome(pluginKind, "UpdateCloudMetadata")
            stack == PresentStack(template, "CREATE_COMPLETE")
        IN  /\ pluginKind \in PluginKinds
            /\ call' = Called("UpdateCloudMetadata", template, outcome)
            /\ pluginCloudMetadata' =
                  IF outcome = "returns" /\ pluginKind # "mail"
                  THEN stack ELSE pluginCloudMetadata
            /\ updateReturned' = (updateReturned \/ outcome = "returns")
            /\ UNCHANGED <<pluginKind, cfg, localMetadata, heldBy, notPluginVars>>

\* GetLocalMetadata, plugin_bucket.go:177-180 (part_005:232-235,
\* part_011:144-147).
PluginGetLocalMetadata ==
    /\ pluginKind \in PluginKinds
    /\ call' = Called("GetLocalMetadata", "none",
                      MetadataOutcome(TRUE, localMetadata, "local not deployed"))
    /\ UNCHANGED <<pluginKind, cfg, localMetadata, pluginCloudMetadata, heldBy,
                   updateReturned, notPluginVars>>

\* GetCloudMetadata(require), plugin_bucket.go:183-186; hasuraImpl's takes no
\* argument and always asserts (part_005:238-241); mailImpl has none.
PluginGetCloudMetadata ==
    \E require \in IF pluginKind = "bucket" THEN BOOLEAN ELSE {TRUE} :
        /\ pluginKind \in {"bucket", "hasura"}
        /\ call' = Called("GetCloudMetadata", require,
                          MetadataOutcome(require, pluginCloudMetadata # AbsentStack,
                                          "cloud not deployed"))
        /\ UNCHANGED <<pluginKind, cfg, localMetadata, pluginCloudMetadata, heldBy,
                       updateReturned, notPluginVars>>

\* IsDeployed, plugin_bucket.go:189-191 and part_005:250-252:
\* p.cloudMetadata != nil; part_011:150-152: false.
PluginIsDeployedValue ==
    IF pluginKind = "mail" THEN FALSE ELSE pluginCloudMetadata # AbsentStack

PluginIsDeployed ==
    /\ pluginKind \in PluginKinds
    /\ call' = Called("IsDeployed", "none",
                      IF PluginIsDeployedValue THEN "returns true" ELSE "returns false")
    /\ UNCHANGED <<pluginKind, cfg, localMetadata, pluginCloudMetadata, heldBy,
                   updateReturned, notPluginVars>>

NextPlugin ==
    \/ PluginConfigure
    \/ PluginRead
    \/ PluginEventHook
    \/ PluginUpdateLocalTemplate
    \/ PluginUpdateCloudMetadata
    \/ PluginGetLocalMetadata
    \/ PluginGetCloudMetadata
    \/ PluginIsDeployed

SpecPlugin == InitPlugin /\ [][NextPlugin]_vars

----------------------------------------------------------------------------
(* The Bucket plugins of one App under NewLocalStage                       *)
(* (src/unnamed/part_003:40-66) and bucketImpl.UpdateLocalTemplate         *)
(* (src/cloudz/plugin_bucket.go:194-246). The buckets do not depend on one *)
(* another, so they share a wave and NewApp may put them in any order.     *)

Buckets == 1..MaxBuckets

\* BucketConfig (plugin_bucket.go:46-54, 63-67): Name is the bucket's
\* identity here; the two ports of BucketConfigLocal; IsPublicAccessEnabled.
BucketConfigs ==
    [ExternalPort : {9000, 9100}, ConsoleExternalPort : {9001, 9101},
     IsPublicAccessEnabled : BOOLEAN]

\* plugin_bucket.go:195: every bucket of an App computes the same container name.
BucketContainerName == "app-bucket"

\* bucketImpl.UpdateLocalTemplate, plugin_bucket.go:212-245, on the services
\* of the template. MINIO_DEFAULT_BUCKETS, a comma-separated string, is the
\* sequence of its parts; the environment entries and fields that are the
\* same for every bucket are left out.
BucketUpdateLocalTemplate(services, name, c) ==
    LET entry == <<name, IF c.IsPublicAccessEnabled THEN ":download" ELSE "">>
        found == {i \in 1..Len(services) : services[i].Name = BucketContainerName}
    IN  IF found # {}
        THEN LET i == CHOOSE k \in found : \A l \in found : k <= l
             IN  [services EXCEPT ![i].MINIO_DEFAULT_BUCKETS = Append(@, entry)]
        ELSE Append(services,
                    [Name |-> BucketContainerName,
                     MINIO_DEFAULT_BUCKETS |-> <<entry>>,
                     Ports |-> <<[Target |-> "minioPort", Published |-> c.ExternalPort],
                                 [Target |-> "minioConsolePort",
                                  Published |-> c.ConsoleExternalPort]>>])

\* plugin_bucket.go:203-211: the URLs of the local metadata, by bucket name
\* and port.
BucketLocalMetadataOf(name, c) ==
    [BucketName |-> name,
     ExternalURL |-> [host |-> "localhost", port |-> c.ExternalPort, path |-> name],
     ConsoleExternalURL |-> [host |-> "localhost", port |-> c.ConsoleExternalPort]]

\* The services NewLocalStage builds when its loop visits the buckets in the
\* given order.
RECURSIVE ServicesFor(_)
ServicesFor(order) ==
    IF order = <<>> THEN <<>>
    ELSE LET b == order[Len(order)]
         IN  BucketUpdateLocalTemplate(ServicesFor(SubSeq(order, 1, Len(order) - 1)),
                                       b, bucketCfgs[b])

InitBuckets ==
    /\ IdleApp
    /\ IdleSecrets
    /\ IdleNames
    /\ IdleOps
    /\ IdleStage
    /\ IdlePlugin
    /\ bucketCfgs \in [Buckets -> BucketConfigs]
    /\ tplServices = <<>>
    /\ bucketLocalMetadata = [b \in Buckets |-> <<>>]
    /\ visitedBuckets = <<>>

\* part_003:59-63: one iteration of the constructor's loop, on a bucket of
\* the wave that was not visited yet: Configure, then UpdateLocalTemplate.
NewLocalStageVisit ==
    \E b \in Buckets \ Range(visitedBuckets) :
        /\ Len(visitedBuckets) < MaxBuckets
        /\ tplServices' = BucketUpdateLocalTemplate(tplServices, b, bucketCfgs[b])
        /\ bucketLocalMetadata' =
              [bucketLocalMetadata EXCEPT ![b] = BucketLocalMetadataOf(b, bucketCfgs[b])]
        /\ visitedBuckets' = Append(visitedBuckets, b)
        /\ UNCHANGED <<bucketCfgs, notBucketVars>>

\* part_003:43-55: NewLocalStage is called again on the same App, with a new
\* localTemplate; the plugins keep their fields until they are visited.
NewLocalStageAgain ==
    /\ Len(visitedBuckets) = MaxBuckets
    /\ tplServices' = <<>>
    /\ visitedBuckets' = <<>>
    /\ UNCHANGED <<bucketCfgs, bucketLocalMetadata, notBucketVars>>

NextBuckets == NewLocalStageVisit \/ NewLocalStageAgain

SpecBuckets == InitBuckets /\ [][NextBuckets]_vars

----------------------------------------------------------------------------
(* The secrets file: Load, EditPrompt, ensureFileInitialized and save *)

\* The values of the secrets struct: two small fields.
SecretValues == [a : 0..MaxSecret, b : 0..MaxSecret]

\* jsonz.MustMarshalIndentDefault: the value as the bytes of "{a,b}".
Marshal(v) == <<123, 48 + v.a, 44, 48 + v.b, 125>>

\* json.Unmarshal into a new value of valuesType: an error unless the bytes
\* are a document of that shape.
Unmarshal(buf) ==
    IF /\ Len(buf) = 5
       /\ buf[1] = 123 /\ buf[3] = 44 /\ buf[5] = 125
       /\ buf[2] \in 48..57 /\ buf[4] \in 48..57
    THEN [ok |-> TRUE, v |-> [a |-> buf[2] - 48, b |-> buf[4] - 48]]
    ELSE [ok |-> FALSE, v |-> <<>>]

\* vz.Validate on a value of the struct.
Validate(v) == v \in SecretValues

\* KMS chooses the ciphertext blob of a plaintext; two calls with the same
\* plaintext need not return the same blob.
EncryptNonces == {1, 77, 200}

\* operationsImpl.Encrypt: resp.CiphertextBlob.
Encrypt(plaintext, nonce) ==
    <<nonce>> \o [i \in 1..Len(plaintext) |-> (plaintext[i] + nonce) % 256]

\* operationsImpl.Decrypt: resp.Plaintext when the blob is one that Encrypt
\* returned under the key, an error (a panic) for any other bytes.
Decrypt(ciphertext) ==
    IF /\ Len(ciphertext) >= 1
       /\ ciphertext[1] \in EncryptNonces
       /\ \A i \in 2..Len(ciphertext) : ciphertext[i] \in 0..255
    THEN [ok |-> TRUE,
          buf |-> [i \in 1..(Len(ciphertext) - 1) |->
                      (ciphertext[i + 1] + 256 - ciphertext[1]) % 256]]
    ELSE [ok |-> FALSE, buf |-> <<>>]

\* The alphabet of base64.StdEncoding, as character codes; 61 is the padding.
Base64Char(i) ==
    IF i < 26 THEN 65 + i
    ELSE IF i < 52 THEN 71 + i
    ELSE IF i < 62 THEN i - 4
    ELSE IF i = 62 THEN 43 ELSE 47

Base64Index(c) ==
    IF c \in 65..90 THEN c - 65
    ELSE IF c \in 97..122 THEN c - 71
    ELSE IF c \in 48..57 THEN c + 4
    ELSE IF c = 43 THEN 62
    ELSE IF c = 47 THEN 63 ELSE -1

\* base64.StdEncoding.EncodeToString: three bytes to four characters, the
\* last group padded.
RECURSIVE Base64Encode(_)
Base64Encode(buf) ==
    IF buf = <<>> THEN <<>>
    ELSE IF Len(buf) = 1
    THEN <<Base64Char(buf[1] \div 4), Base64Char((buf[1] % 4) * 16), 61, 61>>
    ELSE IF Len(buf) = 2
    THEN <<Base64Char(buf[1] \div 4),
           Base64Char((buf[1] % 4) * 16 + buf[2] \div 16),
           Base64Char((buf[2] % 16) * 4), 61>>
    ELSE <<Base64Char(buf[1] \div 4),
           Base64Char((buf[1] % 4) * 16 + buf[2] \div 16),
           Base64Char((buf[2] % 16) * 4 + buf[3] \div 64),
           Base64Char(buf[3] % 64)>> \o Base64Encode(SubSeq(buf, 4, Len(buf)))

\* base64.StdEncoding.DecodeString: an error for a length that is not a
\* multiple of four or a character outside the alphabet.
RECURSIVE Base64Decode(_)
Base64Decode(enc) ==
    IF enc = <<>> THEN [ok |-> TRUE, buf |-> <<>>]
    ELSE IF Len(enc) < 4 THEN [ok |-> FALSE, buf |-> <<>>]
    ELSE LET i1 == Base64Index(enc[1])
             i2 == Base64Index(enc[2])
             i3 == Base64Index(enc[3])
             i4 == Base64Index(enc[4])
             b1 == i1 * 4 + i2 \div 16
             b2 == (i2 % 16) * 16 + i3 \div 4
             b3 == (i3 % 4) * 64 + i4
             rest == Base64Decode(SubSeq(enc, 5, Len(enc)))
         IN  IF i1 = -1 \/ i2 = -1 THEN [ok |-> FALSE, buf |-> <<>>]
             ELSE IF Len(enc) = 4 /\ enc[3] = 61 /\ enc[4] = 61
             THEN [ok |-> TRUE, buf |-> <<b1>>]
             ELSE IF Len(enc) = 4 /\ enc[4] = 61 /\ i3 # -1
             THEN [ok |-> TRUE, buf |-> <<b1, b2>>]
             ELSE IF i3 = -1 \/ i4 = -1 \/ ~rest.ok THEN [ok |-> FALSE, buf |-> <<>>]
             ELSE [ok |-> TRUE, buf |-> <<b1, b2, b3>> \o rest.buf]

\* filez.MustCheckExists is false.
NoFile == [exists |-> FALSE, bytes |-> <<>>]

\* secretsImpl.save: what it leaves in the file and what Encrypt returned.
Save(v, nonce) ==
    LET buf == Encrypt(Marshal(v), nonce)
    IN  [file |-> [exists |-> TRUE, bytes |-> Base64Encode(buf)],
         saved |-> [value |-> v, ciphertext |-> buf]]

\* secretsImpl.ensureFileInitialized: save(defaultValues) when there is no file.
EnsureFileInitialized(nonce) ==
    IF ~secretsFile.exists
    THEN Save(defaultValues, nonce)
    ELSE [file |-> secretsFile, saved |-> saved]

\* NewSecrets has returned; the file is absent or was written by save in an
\* earlier run of the program.
InitSecrets ==
    /\ IdleApp
    /\ IdleNames
    /\ IdleOps
    /\ IdleStage
    /\ IdlePlugin
    /\ IdleBuckets
    /\ defaultValues \in SecretValues
    /\ \/ secretsFile = NoFile /\ saved = [value |-> <<>>, ciphertext |-> <<>>]
       \/ \E v \in SecretValues, nonce \in EncryptNonces :
             /\ secretsFile = Save(v, nonce).file
             /\ saved = Save(v, nonce).saved
    /\ secretsCall = [op |-> "none"]

\* secretsImpl.Load
SecretsLoad ==
    \E nonce \in EncryptNonces :
        LET init == EnsureFileInitialized(nonce)
            dec == Base64Decode(init.file.bytes)
            plain == Decrypt(dec.buf)
            parsed == Unmarshal(plain.buf)
        IN  /\ secretsFile' = init.file
            /\ saved' = init.saved
            /\ secretsCall' =
                  IF ~dec.ok
                  THEN [op |-> "Load", outcome |-> "panicked", decrypted |-> FALSE,
                        stored |-> init.saved]
                  ELSE IF ~plain.ok \/ ~parsed.ok
                  THEN [op |-> "Load", outcome |-> "panicked", decrypted |-> TRUE,
                        ciphertext |-> dec.buf, stored |-> init.saved]
                  ELSE [op |-> "Load", outcome |-> "returned", decrypted |-> TRUE,
                        ciphertext |-> dec.buf, stored |-> init.saved,
                        value |-> parsed.v]
            /\ UNCHANGED <<defaultValues, notSecretsVars>>

\* secretsImpl.EditPrompt
SecretsEditPrompt ==
    \E nonce \in EncryptNonces, keep \in BOOLEAN, edit \in SecretValues,
       nonce2 \in EncryptNonces :
        LET init == EnsureFileInitialized(nonce)
            plain == Decrypt(init.file.bytes)
            edited == IF keep THEN plain.buf ELSE Marshal(edit)
            isChanged == edited # plain.buf
            parsed == Unmarshal(edited)
            valid == parsed.ok /\ Validate(parsed.v)
            after == IF plain.ok /\ isChanged /\ valid
                     THEN Save(parsed.v, nonce2) ELSE init
        IN  /\ secretsFile' = after.file
            /\ saved' = after.saved
            /\ secretsCall' =
                  IF ~plain.ok \/ ~valid
                  THEN [op |-> "EditPrompt", outcome |-> "panicked", decrypted |-> TRUE,
                        ciphertext |-> init.file.bytes, stored |-> init.saved]
                  ELSE [op |-> "EditPrompt", outcome |-> "returned", decrypted |-> TRUE,
                        ciphertext |-> init.file.bytes, stored |-> init.saved,
                        opened |-> plain.buf]
            /\ UNCHANGED <<defaultValues, notSecretsVars>>

NextSecrets == SecretsLoad \/ SecretsEditPrompt

SpecSecrets == InitSecrets /\ [][NextSecrets]_vars

----------------------------------------------------------------------------
(* The dependency relation of the configuration *)

\* The plugins reachable from the members of S along one or more dependencies.
RECURSIVE DependencyClosure(_)
DependencyClosure(S) ==
    LET T == S \cup UNION {deps[q] : q \in S}
    IN  IF T = S THEN S ELSE DependencyClosure(T)

TransitiveDependencies(p) == DependencyClosure(deps[p])

HasCycle == \E p \in cfgPlugins : p \in TransitiveDependencies(p)

----------------------------------------------------------------------------
(* Properties of the leveler *)

\* C1: once NewApp has returned, every dependency D of every configured
\* plugin C is placed, and every wave holding D comes strictly before every
\* wave holding C.
C1_DependenciesInEarlierWaves ==
    appPc = "ready" =>
        \A c \in cfgPlugins : \A d \in deps[c] :
            /\ WavesOf(sortedPlugins, c) # {}
            /\ WavesOf(sortedPlugins, d) # {}
            /\ \A i \in WavesOf(sortedPlugins, d) : \A j \in WavesOf(sortedPlugins, c) : i < j

\* NewApp has returned three waves for a chain of dependencies.
C1_Witness ==
    /\ appPc = "ready"
    /\ Len(sortedPlugins) = 3
    /\ \E c \in cfgPlugins : Cardinality(deps[c]) = 2

\* C2: on a dependency set with a cycle, a loop iteration that finds no plugin
\* to resolve while plugins remain ends NewApp with a cycle error instead of
\* starting the next iteration.
C2_CycleReported ==
    [][(HasCycle /\ appPc = "leveling" /\ DOMAIN pluginsMap # {}
            /\ ReadyPlugins(pluginsMap) = {})
        => appPc' = "cycle_error"]_vars

----------------------------------------------------------------------------
(* Properties of the export naming and resolution *)

\* C3: two distinct tuples never get the same export name, and two distinct
\* tuples of one stack never get the same output key.
C3_ExportNamesInjective ==
    namesPc # "start" =>
        /\ names.nameA # names.nameB
        /\ (CloudGetStackName(tupA.plugin) = CloudGetStackName(tupB.plugin)
                => names.keyA # names.keyB)

\* C4: resolving a tuple that the deployed stack's template registered returns
\* exactly the value registered for that tuple.
C4_ExportRoundTrip ==
    (namesPc = "resolved" /\ lookup.tuple \in registered) =>
        /\ lookup.ok
        /\ lookup.value = OutputValueOf(lookup.tuple)

\* C5: resolving a tuple that the deployed stack does not hold returns no
\* value and fails with an error that names the ref, the attribute (for an
\* attribute export) and the owning component.
C5_MissingExportAttributed ==
    (namesPc = "resolved" /\ lookup.tuple \notin registered) =>
        /\ ~lookup.ok
        /\ \E i \in 1..Len(lookup.errArgs) :
              lookup.errArgs[i] \in {lookup.tuple.ref, RefRef(lookup.tuple.ref)}
        /\ lookup.tuple.kind = "att" =>
              \E i \in 1..Len(lookup.errArgs) : lookup.errArgs[i] = lookup.tuple.att
        /\ \E i \in 1..Len(lookup.errArgs) :
              lookup.errArgs[i] \in {lookup.tuple.plugin.name,
                                     CloudGetStackName(lookup.tuple.plugin)}

----------------------------------------------------------------------------
(* Properties of the stack operations *)

\* The backend calls of the last operation that went to the given API.
CallsTo(api) == {i \in DOMAIN opsCalls : opsCalls[i].api = api}

\* C6: UpsertStack describes the stack first; when DescribeStack returns nil
\* for an absent stack (a normal result, not a panic) it makes exactly one
\* CreateStack request and no UpdateStack request; when the stack is present
\* it makes exactly one UpdateStack request and no CreateStack request; and
\* when it returns, it returns the stack as described after the operation.
C6_UpsertDescribesThenCreatesOrUpdates ==
    /\ (opsLast.op = "DescribeStack" /\ opsLast.answers.describeOk /\ ~opsLast.before.exists)
          => (opsResult.ok /\ opsResult.stack = AbsentStack)
    /\ opsLast.op = "UpsertStack" =>
          /\ opsCalls[1].api = "DescribeStacks"
          /\ (opsLast.answers.describeOk /\ ~opsLast.before.exists) =>
                /\ opsCalls[1].out = "DoesNotExist"
                /\ Cardinality(CallsTo("CreateStack")) = 1
                /\ CallsTo("UpdateStack") = {}
          /\ (opsLast.answers.describeOk /\ opsLast.before.exists) =>
                /\ Cardinality(CallsTo("UpdateStack")) = 1
                /\ CallsTo("CreateStack") = {}
          /\ opsResult.ok =>
                /\ opsCalls[Len(opsCalls)].api = "DescribeStacks"
                /\ opsResult.stack = cfStack
                /\ cfStack.exists

C6_Witness ==
    /\ opsLast.op = "UpsertStack"
    /\ opsCount = 2
    /\ opsLast.before.exists
    /\ opsLast.before.status = "CREATE_COMPLETE"
    /\ opsResult.ok
    /\ cfStack.status = "UPDATE_COMPLETE"

\* C7: an UpdateStack request to which the backend answers that there is
\* nothing to update is a success: UpdateStack and UpsertStack return the
\* stack's current state without panicking and without waiting for an update.
C7_NoUpdatesIsSuccess ==
    (/\ opsLast.op \in {"UpdateStack", "UpsertStack", "cloudz.UpdateStack", "cloudz.UpsertStack"}
     /\ \E i \in CallsTo("UpdateStack") : opsCalls[i].out = "NoUpdates"
     /\ opsLast.answers.finalOk)
        => /\ opsResult.ok
           /\ opsResult.stack = cfStack
           /\ cfStack = opsLast.before
           /\ CallsTo("WaitUpdateComplete") = {}

----------------------------------------------------------------------------
(* Properties of the stages *)

\* The plugins of the waves before the wave of p.
EarlierWaves(p) ==
    {q \in Placed(sortedPlugins) :
        \E i \in WavesOf(sortedPlugins, q) : \E j \in WavesOf(sortedPlugins, p) : i < j}

\* A Configure call starts: the plugin's cfg is set by this step.
ConfigureStarts(p) == p \notin configured /\ p \in configured'

\* C8, as the constructors implement it: a plugin of a later wave starts
\* Configure only after every plugin of every earlier wave has been
\* configured and, in the local stage, has returned from UpdateLocalTemplate,
\* in the cloud stage, has had its cloud metadata built if its stack exists.
\* The constructor of the cloud stage builds no metadata for a plugin whose
\* stack is absent: that is left to Deploy.
C8_ConfigureAfterEarlierWavesBuilt ==
    /\ [][\A p \in Universe : ConfigureStarts(p) =>
            \A q \in EarlierWaves(p) :
                /\ q \in configured
                /\ stageKind = "local" => q \in localBuilt
                /\ stageKind = "cloud" => (stacks[q].exists => IsDeployed(q))]_vars
    /\ [](stageKind = "cloud" /\ deployCount = 0 =>
            \A q \in Universe : ~stacks[q].exists => ~IsDeployed(q))

C8_Witness ==
    /\ stageKind = "cloud"
    /\ stagePc.phase = "new"
    /\ Len(sortedPlugins) >= 2
    /\ \E p \in Range(sortedPlugins[2]) : p \in configured
    /\ \E q \in Range(sortedPlugins[1]) : stacks[q].exists /\ IsDeployed(q)

\* C8, as stated: in both stages a plugin of a later wave starts Configure
\* only after every plugin of every earlier wave (that has a stack to build
\* metadata from, in the cloud stage) has its metadata.
C8_ConfigureAfterEarlierWavesHydrated ==
    [][\A p \in Universe : ConfigureStarts(p) =>
            \A q \in EarlierWaves(p) :
                /\ stageKind = "local" => q \in localBuilt
                /\ stageKind = "cloud" => (q \in units => IsDeployed(q))]_vars

\* C9: while Deploy works on a plugin (GetCloudTemplate, the before-deploy
\* hook, UpsertStack, UpdateCloudMetadata, the after-deploy hook), every
\* dependency of the plugin that has a stack has its cloud metadata, and
\* Deploy never panics with "cloud not deployed".
C9_DependenciesHydratedInDeploy ==
    /\ (stagePc.phase = "deploy" /\ stagePc.at <= NumSorted)
          => \A d \in RequiredMetadata(PluginAt(stagePc.at)) : IsDeployed(d)
    /\ ~(stagePc.phase = "panicked" /\ stagePc.step = "cloud not deployed")

C9_Witness ==
    /\ stagePc.phase = "deploy"
    /\ stagePc.step = "CloudBeforeDeployEvent"
    /\ deployCount = 1
    /\ \E d \in RequiredMetadata(PluginAt(stagePc.at)) :
          cloudMetadata[d] = PresentStack("t1", "CREATE_COMPLETE")

\* The calls one iteration of Deploy's loop makes for a plugin.
StepsOf(p) ==
    IF p \in units
    THEN <<"GetCloudTemplate", "CloudBeforeDeployEvent", "UpsertStack", "UpdateCloudMetadata",
           "CloudAfterDeployEvent">>
    ELSE <<"GetCloudTemplate">>

\* The calls of one iteration for a plugin, each with the plugin it is made on.
CallsFor(p) == [j \in 1..Len(StepsOf(p)) |-> <<p, StepsOf(p)[j]>>]

\* The calls of a whole Deploy: the plugins' steps, one plugin after the other.
ExpectedCalls ==
    LET flat == Flatten(sortedPlugins)
    IN  Flatten([i \in 1..Len(flat) |-> CallsFor(flat[i])])

MadeCalls == [i \in 1..Len(events) |-> <<events[i].plugin, events[i].step>>]

IsPrefix(a, b) == Len(a) <= Len(b) /\ a = SubSeq(b, 1, Len(a))

\* C10: the calls of a Deploy are, plugin after plugin in wave order, the
\* plugin's GetCloudTemplate, before-deploy hook, UpsertStack,
\* UpdateCloudMetadata with the stack UpsertStack returned, after-deploy hook:
\* at any moment a prefix of that sequence, and the whole of it when Deploy
\* returns.
C10_DeployStepOrder ==
    deployCount > 0 =>
        LET expected == ExpectedCalls
            made == MadeCalls
        IN  /\ IsPrefix(made, expected)
            /\ stagePc.phase = "ready" => made = expected
            /\ \A i \in 1..Len(events) : events[i].step = "UpdateCloudMetadata" =>
                  /\ events[i - 1].step = "UpsertStack"
                  /\ events[i].stack = events[i - 1].stack
                  /\ cloudMetadata[events[i].plugin] = events[i].stack

C10_Witness ==
    /\ stagePc.phase = "ready"
    /\ deployCount = 2
    /\ Cardinality(units) = 2
    /\ Len(events) = 11

----------------------------------------------------------------------------
(* Properties of LocalStage.Create *)

\* The hooks of one event, fired on the plugins in wave order.
HookCalls(event) ==
    LET flat == Flatten(sortedPlugins)
    IN  [i \in 1..Len(flat) |-> <<flat[i], event>>]

\* The calls of a whole Create.
ExpectedCreateCalls ==
    <<<<TheStage, "down">>>> \o HookCalls("LocalBeforeCreateEvent")
        \o <<<<TheStage, "up">>>> \o HookCalls("LocalAfterCreateEvent")

\* C11: the calls of a Create are the teardown, the before-create hook of
\* every plugin in wave order, one "up" that applies the specification, and
\* then the after-create hook of every plugin in wave order: at any moment a
\* prefix of that sequence, and the whole of it when Create returns.
C11_CreateStepOrder ==
    createCount > 0 =>
        LET expected == ExpectedCreateCalls
            made == MadeCalls
        IN  /\ IsPrefix(made, expected)
            /\ stagePc.phase = "ready" => made = expected

C11_Witness ==
    /\ stagePc.phase = "ready"
    /\ createCount = 2
    /\ Len(sortedPlugins) = 2
    /\ Len(events) = 2 * NumSorted + 2

----------------------------------------------------------------------------
(* Properties of a failing Deploy *)

\* The positions of the plugins in the order in which Deploy visits them.
PositionOf(p) == CHOOSE i \in 1..NumSorted : PluginAt(i) = p

\* C13: an UpsertStack that fails (the request, the waiter or the describe)
\* is the last call of its Deploy: the stage has panicked, the plugin whose
\* stack failed gets no UpdateCloudMetadata and no after-deploy hook, and no
\* plugin visited after it, a dependent in particular, gets any call.
C13_FailedUpsertAbortsDeploy ==
    deployCount > 0 =>
        /\ \A i \in 1..Len(events) :
              (events[i].step = "UpsertStack" /\ ~events[i].stack.exists)
                  => (i = Len(events) /\ stagePc.phase = "panicked")
        /\ (stagePc.phase = "panicked" /\ stagePc.step = "backend") =>
              LET failed == PluginAt(stagePc.at)
              IN  /\ events[Len(events)].plugin = failed
                  /\ events[Len(events)].step = "UpsertStack"
                  /\ \A i \in 1..Len(events) :
                        /\ PositionOf(events[i].plugin) <= stagePc.at
                        /\ failed \notin deps[events[i].plugin]

C13_Witness ==
    /\ stagePc.phase = "panicked"
    /\ stagePc.step = "backend"
    /\ deployCount = 1
    /\ stagePc.at = 2
    /\ stacks[PluginAt(2)].status = "ROLLBACK_COMPLETE"
    /\ IsDeployed(PluginAt(1))
    /\ \E q \in Universe : PluginAt(2) \in deps[q] /\ q \in units

----------------------------------------------------------------------------
(* Properties of one plugin object *)

\* C14: a read of the local or cloud metadata of a plugin whose metadata is
\* not set ends in the "local not deployed" or "cloud not deployed" failure,
\* whatever the accessor and its argument, and never returns nil.
C14_MetadataReadFailsBeforeHydration ==
    /\ (call.method = "GetLocalMetadata" /\ ~localMetadata)
          => call.outcome = "local not deployed"
    /\ (call.method = "GetCloudMetadata" /\ pluginCloudMetadata = AbsentStack)
          => call.outcome = "cloud not deployed"

ConfigDependentMethods ==
    {"GetStage", "GetInstanceName", "EventHook", "UpdateLocalTemplate",
     "GetCloudTemplate", "UpdateCloudMetadata"}

\* C15: a call of GetStage, GetInstanceName, EventHook, UpdateLocalTemplate,
\* GetCloudTemplate or UpdateCloudMetadata on a plugin that Configure has not
\* run on ends in the "plugin not configured" failure: not in a nil
\* dereference and not in a returned value.
C15_UnconfiguredCallFails ==
    (call.method \in ConfigDependentMethods /\ ~call.configured)
        => call.outcome = "plugin not configured"

\* C16: IsDeployed() is true exactly when an UpdateCloudMetadata call has
\* returned: false from creation until the first one, true ever after.
C16_IsDeployedIffHydrated == PluginIsDeployedValue <=> updateReturned

\* C18: when a second stage configures a plugin that a first stage holds, what
\* the first stage sees of the plugin (GetStage, the config, the metadata,
\* the build directory) does not change.
C18_FirstStageViewUnchanged ==
    [][(heldBy # {} /\ call'.method = "Configure" /\ call'.arg \notin heldBy)
          => Observed' = Observed]_vars

----------------------------------------------------------------------------
(* Properties of a failing constructor *)

\* Deploy, Create and Destroy have made no call: no hook, no stack
\* operation, no docker-compose command.
NoSideEffect == events = <<>> /\ deployCount = 0 /\ createCount = 0

\* C17: a config that fails validation fails in Configure, inside the
\* constructor of the stage, before any side effect: in the state where
\* Configure has panicked no hook has fired, no stack was created or updated
\* and no docker-compose command has run, and whenever one of these has
\* happened every Configure of the constructor had returned.
C17_ValidationBeforeSideEffects ==
    /\ (stagePc.phase = "panicked" /\ stagePc.step = "invalid config") => NoSideEffect
    /\ ~NoSideEffect =>
          /\ stagePc.phase \notin {"none", "new"}
          /\ configured = Range(Flatten(sortedPlugins))

C17_Witness ==
    /\ stagePc.phase = "panicked"
    /\ stagePc.step = "invalid config"
    /\ stageKind = "cloud"
    /\ stagePc.at = 2
    /\ IsDeployed(PluginAt(1))
    /\ NoSideEffect

----------------------------------------------------------------------------
(* Properties of the waves *)

\* C19: the wave list is determined by the plugin list and the dependency
\* sets: at every iteration of the leveling loop there is exactly one wave
\* the loop can append, so two runs of NewApp on the same input agree.
C19_WaveOrderDetermined ==
    (appPc = "leveling" /\ DOMAIN pluginsMap # {})
        => Cardinality({Append(sortedPlugins, wave) :
                            wave \in OrdersOf(ReadyPlugins(pluginsMap))}) = 1

\* C20: when NewApp returns, every plugin is in the earliest wave it can be
\* in: the first wave holds exactly the plugins without dependencies, and a
\* plugin is in a later wave k exactly when all its dependencies are in
\* waves before k and one of them is in wave k-1; the chain A, B (on A),
\* C (on A and B) gives the waves [[A], [B], [C]].
C20_EarliestWave ==
    appPc = "ready" =>
        /\ \A c \in cfgPlugins : WavesOf(sortedPlugins, c) # {}
        /\ \A c \in cfgPlugins : \A k \in 1..Len(sortedPlugins) :
              k \in WavesOf(sortedPlugins, c) <=>
                  IF k = 1 THEN deps[c] = {}
                  ELSE /\ \A d \in deps[c] : \E i \in 1..(k - 1) : i \in WavesOf(sortedPlugins, d)
                       /\ \E d \in deps[c] : (k - 1) \in WavesOf(sortedPlugins, d)
        /\ (cfgPlugins = {1, 2, 3} /\ deps[1] = {} /\ deps[2] = {1} /\ deps[3] = {1, 2})
              => sortedPlugins = << <<1>>, <<2>>, <<3>> >>

C20_Witness ==
    /\ appPc = "ready"
    /\ cfgPlugins = {1, 2, 3}
    /\ deps[1] = {}
    /\ deps[2] = {1}
    /\ deps[3] = {1, 2}
    /\ sortedPlugins = << <<1>>, <<2>>, <<3>> >>

----------------------------------------------------------------------------
(* Properties of a plugin without a cloud template *)

\* C21: Deploy skips a plugin whose GetCloudTemplate returns nil: the only
\* call made on it is GetCloudTemplate, it has no stack and no cloud
\* metadata, and Deploy goes on with the plugin after it.
C21_NoTemplateSkipped ==
    deployCount > 0 =>
        /\ \A p \in Range(Flatten(sortedPlugins)) \ units :
              /\ stacks[p] = AbsentStack
              /\ cloudMetadata[p] = AbsentStack
        /\ \A i \in 1..Len(events) :
              events[i].plugin \notin units =>
                  /\ events[i].step = "GetCloudTemplate"
                  /\ i < Len(events) =>
                        /\ events[i + 1].step = "GetCloudTemplate"
                        /\ PositionOf(events[i + 1].plugin) = PositionOf(events[i].plugin) + 1
                  /\ i = Len(events) =>
                        \/ stagePc = Pc("deploy", PositionOf(events[i].plugin) + 1,
                                        "GetCloudTemplate")
                        \/ stagePc.phase = "ready"

C21_Witness ==
    /\ stagePc.phase = "ready"
    /\ deployCount = 1
    /\ PluginAt(2) \notin units
    /\ {PluginAt(1), PluginAt(3)} \subseteq units
    /\ IsDeployed(PluginAt(3))
    /\ PluginAt(2) \in deps[PluginAt(3)]

----------------------------------------------------------------------------
(* Properties of EventHook *)

\* C22: an EventHook call on a configured plugin runs the plugin's own
\* handling of the event first, when it has one, and the callback of the
\* config after it: once when a callback is configured and the handling
\* returned, never when none is configured.
C22_BuiltInThenCallback ==
    (call.method = "EventHook" /\ call.configured) =>
        LET t == call.trace
            callbacks == {i \in 1..Len(t) : t[i] = "callback"}
        IN  /\ BuiltInHandling(pluginKind, call.arg) => (Len(t) >= 1 /\ t[1] = "builtin")
            /\ callbacks \subseteq {Len(t)}
            /\ callbacks # {} => cfg.EventHook
            /\ (call.outcome = "returns" /\ cfg.EventHook) => callbacks = {Len(t)}
            /\ Len(t) <= 2

C22_Witness ==
    /\ call.method = "EventHook"
    /\ pluginKind = "hasura"
    /\ call.arg = "cloudBeforeDeploy"
    /\ call.trace = <<"builtin", "callback">>

----------------------------------------------------------------------------
(* Properties of the leveler's input and output *)

\* C23: no step changes the configured plugin list or a plugin's declared
\* dependencies, and once NewApp has returned no step changes the wave list
\* GetSortedPlugins returns.
C23_LevelerLeavesInputAlone ==
    [][/\ cfgPlugins' = cfgPlugins
       /\ deps' = deps
       /\ appPc = "ready" => sortedPlugins' = sortedPlugins]_vars

C23_Witness ==
    /\ appPc = "ready"
    /\ Len(sortedPlugins) = 3
    /\ \E c \in cfgPlugins : Cardinality(deps[c]) = 2 /\ WavesOf(sortedPlugins, c) = {3}
    /\ pluginsMap = <<>>

\* C25: on an acyclic configuration whose dependencies are all configured
\* plugins, the waves are a partition of the configured plugins: no wave is
\* empty, no plugin occurs twice, none from outside the list occurs, and when
\* NewApp returns every configured plugin is in exactly one wave.
C25_WavesPartitionPlugins ==
    (~HasCycle /\ \A c \in cfgPlugins : deps[c] \subseteq cfgPlugins) =>
        LET flat == Flatten(sortedPlugins)
        IN  /\ \A k \in 1..Len(sortedPlugins) : sortedPlugins[k] # <<>>
            /\ \A i, j \in 1..Len(flat) : flat[i] = flat[j] => i = j
            /\ Range(flat) \subseteq cfgPlugins
            /\ appPc = "ready" => Range(flat) = cfgPlugins

C25_Witness ==
    /\ appPc = "ready"
    /\ cfgPlugins = {1, 2, 3}
    /\ Len(sortedPlugins) = 2
    /\ Len(sortedPlugins[1]) = 2
    /\ deps[3] = {1, 2}

\* C26: on an acyclic configuration every iteration of the leveling loop
\* resolves at least one plugin, so the loop ends after at most as many
\* iterations as there are plugins, also when a plugin declares a dependency
\* that is not in the configured list.
C26_AcyclicLevelingResolves ==
    (~HasCycle /\ appPc = "leveling" /\ DOMAIN pluginsMap # {})
        => ReadyPlugins(pluginsMap) # {}

----------------------------------------------------------------------------
(* Properties of CloudStage.IsDeployed *)

\* cloudStageImpl.IsDeployed, part_004:94-104: the conjunction of the
\* plugins' IsDeployed over all waves.
StageIsDeployed == \A p \in Range(Flatten(sortedPlugins)) : IsDeployed(p)

\* C27: once a Deploy of the cloud stage has returned, the stage's
\* IsDeployed() is true, whatever the plugins, one without cloud template
\* included.
C27_DeployedAfterDeploy ==
    (stageKind = "cloud" /\ stagePc.phase = "ready" /\ deployCount > 0) => StageIsDeployed

----------------------------------------------------------------------------
(* Properties of the cloud metadata under a failing UpsertStack *)

\* C28: during a Deploy a plugin's cloud metadata changes only in the
\* plugin's own UpdateCloudMetadata step; a plugin whose UpsertStack failed
\* gets no UpdateCloudMetadata and no after-deploy hook afterwards, so its
\* cloud metadata and IsDeployed() are what they were when Deploy was called.
C28_FailedUpsertKeepsMetadata ==
    /\ [](deployCount > 0 =>
            \A i \in 1..Len(events) :
                (events[i].step = "UpsertStack" /\ ~events[i].stack.exists) =>
                    \A j \in (i + 1)..Len(events) :
                        events[j].plugin = events[i].plugin =>
                            events[j].step \notin {"UpdateCloudMetadata",
                                                   "CloudAfterDeployEvent"})
    /\ [][stagePc.phase = "deploy" =>
            \A p \in Universe :
                cloudMetadata'[p] # cloudMetadata[p] =>
                    /\ stagePc.step = "UpdateCloudMetadata"
                    /\ p = PluginAt(stagePc.at)
                    /\ stagePc'.phase # "panicked"]_vars

C28_Witness ==
    /\ stagePc.phase = "panicked"
    /\ stagePc.step = "backend"
    /\ deployCount = 1
    /\ events[Len(events)].step = "UpsertStack"
    /\ IsDeployed(PluginAt(stagePc.at))
    /\ stacks[PluginAt(stagePc.at)].status = "UPDATE_ROLLBACK_COMPLETE"

----------------------------------------------------------------------------
(* Properties of the local template *)

\* C24: the local specification NewLocalStage has built does not depend on
\* the order in which the plugins of a wave were visited: for every order of
\* the buckets the services are the same, as a set, with the same published
\* ports and the same buckets in MINIO_DEFAULT_BUCKETS, and each bucket has
\* the same local metadata.
C24_WaveOrderIrrelevant ==
    Len(visitedBuckets) = MaxBuckets =>
        LET Norm(svcs) == {[Name |-> svcs[i].Name,
                            buckets |-> Range(svcs[i].MINIO_DEFAULT_BUCKETS),
                            Ports |-> svcs[i].Ports] : i \in 1..Len(svcs)}
        IN  /\ \A order \in OrdersOf(Buckets) : Norm(ServicesFor(order)) = Norm(tplServices)
            /\ \A b \in Buckets :
                  bucketLocalMetadata[b] = BucketLocalMetadataOf(b, bucketCfgs[b])

\* C29: after NewLocalStage the template has exactly one bucket service, its
\* MINIO_DEFAULT_BUCKETS names every bucket exactly once, and the ports of
\* every bucket's ExternalURL and ConsoleExternalURL are ports that the
\* service publishes.
C29_OneBucketServiceWithPorts ==
    Len(visitedBuckets) = MaxBuckets =>
        LET found == {i \in 1..Len(tplServices) : tplServices[i].Name = BucketContainerName}
        IN  /\ Cardinality(found) = 1
            /\ \A i \in found :
                  LET listed == tplServices[i].MINIO_DEFAULT_BUCKETS
                      published == {tplServices[i].Ports[k].Published :
                                        k \in 1..Len(tplServices[i].Ports)}
                  IN  /\ \A b \in Buckets :
                            Cardinality({k \in 1..Len(listed) : listed[k][1] = b}) = 1
                      /\ \A b \in Buckets :
                            /\ bucketLocalMetadata[b].ExternalURL.port \in published
                            /\ bucketLocalMetadata[b].ConsoleExternalURL.port \in published

----------------------------------------------------------------------------
(* Properties of the secrets file *)

\* C30: the secrets file round-trips: every call of Load or EditPrompt hands
\* Decrypt exactly the ciphertext that Encrypt returned in the last save
\* (also a save made by ensureFileInitialized), Load returns the value that
\* was saved, and EditPrompt opens the plaintext of that value.
C30_SecretsFileRoundTrips ==
    secretsCall.op \in {"Load", "EditPrompt"} =>
        /\ secretsCall.decrypted
        /\ secretsCall.ciphertext = secretsCall.stored.ciphertext
        /\ secretsCall.outcome = "returned"
        /\ secretsCall.op = "Load" => secretsCall.value = secretsCall.stored.value
        /\ secretsCall.op = "EditPrompt" =>
              secretsCall.opened = Marshal(secretsCall.stored.value)

====
